---- MODULE Spec2Model ----
(***************************************************************************)
(* A model of the cultural-algorithm Sudoku solver                          *)
(* (src/Models/cultural_solver.py, src/Models/sudoku_logic.py) and of the    *)
(* controller that drives it on a worker thread                            *)
(* (src/Controllers/controller.py).                                        *)
(*                                                                         *)
(* Boards are sequences of rows; rows are sequences of cell values.        *)
(* Coordinates (r, c) are the 0-based indices of the source, so the cell   *)
(* board[r][c] of the source is Cell(board, r, c) == board[r+1][c+1].      *)
(* solve_gen is a generator: every yield appends one event to `events`.    *)
(***************************************************************************)
EXTENDS Integers, Sequences, FiniteSets, TLC

VARIABLES
    puzzle,      \* self.puzzle
    pop_size,    \* self.pop_size
    elite_frac,  \* self.elite_frac, as a rational <<numerator, denominator>>
    max_iters,   \* self.max_iters
    belief,      \* self.belief_space (a BeliefSpace object)
    pc,          \* position of solve_gen: the yield it is suspended at
    pop,         \* local pop of solve_gen
    fits,        \* fits[id(p)] for the members of pop, slot by slot
    best,        \* local best
    best_fit,    \* local best_fit
    it,          \* loop variable it
    num_elite,   \* local num_elite
    bad_cells,   \* local bad_cells
    polished,    \* local polished
    swap,        \* locals <<r, c1, c2>> of the greedy polish
    new_pop,     \* local new_pop
    new_fits,    \* fits[id(p)] for the members of new_pop, slot by slot
    child,       \* local child while it is being built
    events,      \* every event yielded so far, in order
    zero_made,   \* history: an individual with true fitness 0 was created
    probe,       \* a board handed to fitness / get_conflicted_cells
    probe_fit,   \* result of fitness(probe)
    probe_cells, \* result of get_conflicted_cells(probe)
    draw,        \* twice the value random.uniform gave select_target_row
    target_row,  \* the row select_target_row returned
    solving,     \* SudokuController.solving
    stop_event,  \* SudokuController.stop_event is set
    runs,        \* the _solve_loop threads started so far, in order
    ui_queue,    \* the threads whose _finish_solve is scheduled with root.after
    bt_pc,       \* position of BacktrackingStrategy.get_generator
    work_board,  \* the board get_generator was given and works on
    stack,       \* the active calls of recurse: <<r, c, val>>, outermost first
    step_count,  \* nonlocal step_count
    bt_events,   \* every event get_generator has yielded, in order
    heap,        \* the list objects allocated so far; an object's id is its index
    refs         \* the locals of solve_gen as references into heap

solver_vars == <<puzzle, pop_size, elite_frac, max_iters, belief, pc, pop,
                 fits, best, best_fit, it, num_elite, bad_cells, polished,
                 swap, new_pop, new_fits, child, events, zero_made>>
probe_vars == <<probe, probe_fit, probe_cells, draw, target_row>>
ctl_vars == <<solving, stop_event, runs, ui_queue>>
bt_vars == <<bt_pc, work_board, stack, step_count, bt_events>>
heap_vars == <<heap, refs>>
vars == <<puzzle, pop_size, elite_frac, max_iters, belief, pc, pop,
          fits, best, best_fit, it, num_elite, bad_cells, polished,
          swap, new_pop, new_fits, child, events, zero_made,
          probe, probe_fit, probe_cells, draw, target_row,
          solving, stop_event, runs, ui_queue,
          bt_pc, work_board, stack, step_count, bt_events, heap, refs>>

----------------------------------------------------------------------------
(* Bounds of the model.                                                    *)

MaxIters == 2      \* largest max_iters of the exploratory configurations
MaxPop == 3        \* largest pop_size of the exploratory configurations
MaxRuns == 2       \* most solves the controller starts
MaxEvents == 4     \* most events one solve's generator yields
MaxDraws == 2      \* most outcomes of generate_puzzle explored for one size
MaxScore == 2      \* largest row conflict score handed to select_target_row

(* float('inf'), the initial global_best_fit: larger than every fitness.   *)
Inf == 1000000

----------------------------------------------------------------------------
(* Helpers on sequences.                                                   *)

RECURSIVE SumSeq(_)
SumSeq(s) == IF s = <<>> THEN 0 ELSE Head(s) + SumSeq(Tail(s))

Prefix(s, n) == SubSeq(s, 1, IF n < Len(s) THEN n ELSE Len(s))

Max2(a, b) == IF a > b THEN a ELSE b

(* All orders in which random.shuffle can leave a list of the set S.       *)
Shuffles(S) ==
    {f \in [1..Cardinality(S) -> S] : \A i, j \in 1..Cardinality(S) : f[i] = f[j] => i = j}

----------------------------------------------------------------------------
(* src/Models/sudoku_logic.py                                              *)

Isqrt(n) == CHOOSE b \in 0..n : b * b <= n /\ (b + 1) * (b + 1) > n

get_block_dims(n) == IF n = 6 THEN <<2, 3>> ELSE <<Isqrt(n), Isqrt(n)>>

clone_board(board) == [r \in 1..Len(board) |-> [c \in 1..Len(board[r]) |-> board[r][c]]]

Cell(board, r, c) == board[r + 1][c + 1]

----------------------------------------------------------------------------
(* CulturalSolverImpl.__init__                                             *)

SizeN(pz) == Len(pz)
Idx(pz) == 0..(SizeN(pz) - 1)
br_h(pz) == get_block_dims(SizeN(pz))[1]
bc_w(pz) == get_block_dims(SizeN(pz))[2]

fixed(pz, r, c) == Cell(pz, r, c) # 0

missing_map(pz, r) == (1..SizeN(pz)) \ ({Cell(pz, r, c) : c \in Idx(pz)} \ {0})

----------------------------------------------------------------------------
(* The columns and blocks of a board, in the order the loops visit them.   *)

ColumnVals(pz, board, c) == [k \in 1..SizeN(pz) |-> Cell(board, k - 1, c)]

(* Row-major list of the cells of the block whose top-left cell is (br, bc). *)
BlockCellSeq(pz, br, bc) ==
    [k \in 1..(br_h(pz) * bc_w(pz)) |->
        <<br + ((k - 1) \div bc_w(pz)), bc + ((k - 1) % bc_w(pz))>>]

BlockVals(pz, board, br, bc) ==
    LET cells == BlockCellSeq(pz, br, bc)
    IN [k \in 1..Len(cells) |-> Cell(board, cells[k][1], cells[k][2])]

(* range(0, N, br_h) and range(0, N, bc_w), and the blocks in loop order.   *)
BlockRows(pz) == {br \in Idx(pz) : br % br_h(pz) = 0}
BlockCols(pz) == {bc \in Idx(pz) : bc % bc_w(pz) = 0}
BlockOrigins(pz) == BlockRows(pz) \X BlockCols(pz)

BlockOriginSeq(pz) ==
    LET nbc == Cardinality(BlockCols(pz))
    IN [k \in 1..(Cardinality(BlockRows(pz)) * nbc) |->
           <<((k - 1) \div nbc) * br_h(pz), ((k - 1) % nbc) * bc_w(pz)>>]

----------------------------------------------------------------------------
(* CulturalSolverImpl.get_conflicted_cells                                 *)

ColConflicts(pz, board) ==
    {rc \in Idx(pz) \X Idx(pz) :
        /\ \E r2 \in Idx(pz) \ {rc[1]} : Cell(board, r2, rc[2]) = Cell(board, rc[1], rc[2])
        /\ ~fixed(pz, rc[1], rc[2])}

BlockConflictsAt(pz, board, o) ==
    LET cells == BlockCellSeq(pz, o[1], o[2])
    IN {cells[k] : k \in {k \in 1..Len(cells) :
            /\ \E j \in (1..Len(cells)) \ {k} :
                  Cell(board, cells[j][1], cells[j][2]) = Cell(board, cells[k][1], cells[k][2])
            /\ ~fixed(pz, cells[k][1], cells[k][2])}}

BlockConflicts(pz, board) == UNION {BlockConflictsAt(pz, board, o) : o \in BlockOrigins(pz)}

(* A variant that forgets the column pass.                                 *)
get_conflicted_cells_blocks_only(pz, board) == BlockConflicts(pz, board)

get_conflicted_cells(pz, board) == ColConflicts(pz, board) \cup BlockConflicts(pz, board)

----------------------------------------------------------------------------
(* CulturalSolverImpl.fitness                                              *)

(* A variant that counts every occurrence of a repeated value.             *)
SeenAgainAll(vals) ==
    Cardinality({k \in 1..Len(vals) : \E j \in (1..Len(vals)) \ {k} : vals[j] = vals[k]})

(* Number of positions of the list vals whose value was seen earlier.      *)
SeenAgain(vals) ==
    Cardinality({k \in 1..Len(vals) : \E j \in 1..(k - 1) : vals[j] = vals[k]})

ColumnCounts(pz, board) ==
    [k \in 1..SizeN(pz) |-> SeenAgain(ColumnVals(pz, board, k - 1))]

BlockCounts(pz, board) ==
    [k \in 1..Len(BlockOriginSeq(pz)) |->
        SeenAgain(BlockVals(pz, board, BlockOriginSeq(pz)[k][1], BlockOriginSeq(pz)[k][2]))]

(* A variant that forgets the block pass.                                  *)
fitness_cols_only(pz, board) ==
    SumSeq([k \in 1..SizeN(pz) |-> SeenAgain(ColumnVals(pz, board, k - 1))])

(* A variant that counts the cells get_conflicted_cells reports.           *)
fitness_of_reported_cells(pz, board) == Cardinality(get_conflicted_cells(pz, board))

fitness(pz, board) == SumSeq(ColumnCounts(pz, board)) + SumSeq(BlockCounts(pz, board))

(* The block loops of fitness step by br_h and bc_w from 0 and read br_h   *)
(* rows and bc_w columns from each origin: when a block dimension does not *)
(* divide N the last block reaches past the board and board[i][j] raises   *)
(* IndexError.                                                             *)
FitnessRaises(pz) == SizeN(pz) % br_h(pz) # 0 \/ SizeN(pz) % bc_w(pz) # 0

----------------------------------------------------------------------------
(* BeliefSpace                                                             *)

BeliefSpaceInit(n) ==
    [global_best |-> <<>>,
     global_best_fit |-> Inf,
     conflict_matrix |-> [r \in 1..n |-> [c \in 1..n |-> 0]],
     row_conflict_scores |-> [r \in 1..n |-> 0]]

(* A variant that takes the last element with the lowest key.              *)
LastMinIndex(keys) ==
    CHOOSE i \in 1..Len(keys) :
        /\ \A j \in 1..Len(keys) : keys[i] <= keys[j]
        /\ \A j \in (i + 1)..Len(keys) : keys[j] > keys[i]

(* min(seq, key=...): the index of the first element with the lowest key.  *)
FirstMinIndex(keys) ==
    CHOOSE i \in 1..Len(keys) :
        /\ \A j \in 1..Len(keys) : keys[i] <= keys[j]
        /\ \A j \in 1..(i - 1) : keys[j] > keys[i]

(* A variant of lines 37-38 that keeps the previous matrix and scores.     *)
NormativeKept(bs, n) ==
    [matrix |-> bs.conflict_matrix, scores |-> bs.row_conflict_scores]

(* Lines 37-38: the matrix and the scores the counting starts from.        *)
NormativeReset(bs, n) ==
    [matrix |-> [r \in 1..n |-> [c \in 1..n |-> 0]], scores |-> [r \in 1..n |-> 0]]

(* Lines 42-44 for the conflicted cells of one elite.                      *)
CountCells(norm, cells) ==
    [matrix |-> [r \in 1..Len(norm.matrix) |-> [c \in 1..Len(norm.matrix) |->
                    norm.matrix[r][c] + (IF <<r - 1, c - 1>> \in cells THEN 1 ELSE 0)]],
     scores |-> [r \in 1..Len(norm.scores) |->
                    norm.scores[r] + Cardinality({rc \in cells : rc[1] = r - 1})]]

(* Lines 40-44: the loop over the elites.                                  *)
RECURSIVE CountElites(_, _, _)
CountElites(norm, pz, elites) ==
    IF elites = <<>> THEN norm
    ELSE CountElites(CountCells(norm, get_conflicted_cells(pz, Head(elites))), pz, Tail(elites))

(* BeliefSpace.update(elites, fitness_map, get_conflicted_cells_func)       *)
BeliefUpdate(bs, pz, elites, elite_fits) ==
    LET bi == FirstMinIndex(elite_fits)
        best_elite_fit == elite_fits[bi]
        better == best_elite_fit < bs.global_best_fit
        norm == CountElites(NormativeReset(bs, SizeN(pz)), pz, elites)
    IN [global_best |-> IF better THEN clone_board(elites[bi]) ELSE bs.global_best,
        global_best_fit |-> IF better THEN best_elite_fit ELSE bs.global_best_fit,
        conflict_matrix |-> norm.matrix,
        row_conflict_scores |-> norm.scores]

(* BeliefSpace.select_target_row: the rows it can return.  The draw         *)
(* random.uniform(0, total) lies in [0, total); the row returned only       *)
(* depends on which interval between two running sums the draw falls in,    *)
(* and every such interval starts at an integer, so integer draws suffice.  *)
RunningSum(scores, r) == SumSeq(SubSeq(scores, 1, r + 1))

RouletteRow(scores, pick) ==
    CHOOSE r \in 0..(Len(scores) - 1) :
        /\ RunningSum(scores, r) > pick
        /\ \A q \in 0..(r - 1) : RunningSum(scores, q) <= pick

(* A variant of the test current > pick that also stops at current = pick. *)
RunningSumExceedsOrMeets(scores, r, pick2) == 2 * RunningSum(scores, r) >= pick2

(* Line 62, current > pick, for the draw pick2 / 2.                        *)
RunningSumExceeds(scores, r, pick2) == 2 * RunningSum(scores, r) > pick2

(* Lines 50-64 for one draw: the rows the call can return.  The draw is    *)
(* only made when the total is positive; when no running sum exceeds it    *)
(* the loop falls through to random.randint.                               *)
select_target_row(bs, pick2) ==
    LET scores == bs.row_conflict_scores
        rows == 0..(Len(scores) - 1)
        stops == {r \in rows : RunningSumExceeds(scores, r, pick2)}
    IN IF SumSeq(scores) = 0 THEN rows
       ELSE IF stops = {} THEN rows
       ELSE {r \in stops : \A q \in stops : r <= q}

(* random.uniform(0, total) = total * random.random() with random() in     *)
(* [0, 1): the draws, doubled, so that values between two integers are     *)
(* among them.                                                             *)
Draws(bs) == 0..Max2(0, 2 * SumSeq(bs.row_conflict_scores) - 1)

TargetRows(bs) ==
    LET total == SumSeq(bs.row_conflict_scores)
    IN IF total = 0
       THEN 0..(Len(bs.row_conflict_scores) - 1)
       ELSE {RouletteRow(bs.row_conflict_scores, pick) : pick \in 0..(total - 1)}

----------------------------------------------------------------------------
(* CulturalSolverImpl.random_ind                                           *)

NonFixedCols(pz, r) == {c \in Idx(pz) : ~fixed(pz, r, c)}

(* idx when the inner loop reaches column c: non-fixed columns before c.   *)
FillIndex(pz, r, c) == Cardinality({c2 \in NonFixedCols(pz, r) : c2 < c})

RowFills(pz, r) ==
    {[k \in 1..SizeN(pz) |->
        IF fixed(pz, r, k - 1) THEN Cell(pz, r, k - 1)
        ELSE missing[FillIndex(pz, r, k - 1) + 1]] : missing \in Shuffles(missing_map(pz, r))}

(* The boards whose first n rows are filled as random_ind fills them.      *)
RECURSIVE FilledRows(_, _)
FilledRows(pz, n) ==
    IF n = 0 THEN {<<>>}
    ELSE {Append(b, row) : b \in FilledRows(pz, n - 1), row \in RowFills(pz, n - 1)}

(* Every board random_ind can return.                                      *)
random_ind(pz) == FilledRows(pz, SizeN(pz))

----------------------------------------------------------------------------
(* Pieces of solve_gen                                                     *)

(* pop.sort(key=lambda p: fits[id(p)]): a stable ascending sort.  SortRank  *)
(* is the slot that the member at slot i moves to.                         *)
SortRank(keys, i) ==
    1 + Cardinality({j \in 1..Len(keys) :
            keys[j] < keys[i] \/ (keys[j] = keys[i] /\ j < i)})

(* A variant that leaves the list as it is.                                *)
SortOrderUnsorted(keys) == [k \in 1..Len(keys) |-> k]

SortOrder(keys) == [k \in 1..Len(keys) |-> CHOOSE i \in 1..Len(keys) : SortRank(keys, i) = k]

(* round(num/den) for num, den > 0 as Python rounds: to the nearest        *)
(* integer, a tie to the even one.                                         *)
RoundHalfEven(num, den) ==
    LET q == num \div den
        twice == 2 * (num % den)
    IN IF twice < den THEN q
       ELSE IF twice > den THEN q + 1
       ELSE IF q % 2 = 0 THEN q ELSE q + 1

(* A variant that rounds the product to the nearest integer.               *)
NumEliteRounded(ps, ef) == Max2(2, RoundHalfEven(ps * ef[1], ef[2]))

RECURSIVE GCD(_, _)
GCD(a, b) == IF b = 0 THEN a ELSE GCD(b, a % b)

(* floor(log2(num/den)) for num, den > 0: the binary exponent of a float.  *)
RECURSIVE FloorLog2(_, _)
FloorLog2(num, den) ==
    IF num >= 2 * den THEN FloorLog2(num, 2 * den) + 1
    ELSE IF num < den THEN FloorLog2(2 * num, den) - 1
    ELSE 0

RECURSIVE Pow2(_)
Pow2(e) == IF e = 0 THEN 1 ELSE 2 * Pow2(e - 1)

(* 2^e modulo m.                                                           *)
RECURSIVE Pow2Mod(_, _)
Pow2Mod(e, m) == IF e = 0 THEN 1 % m ELSE (2 * Pow2Mod(e - 1, m)) % m

(* int(ps * x) where x is the binary float (53-bit significand, round to   *)
(* nearest, ties to even) nearest to num/den and the product is rounded    *)
(* the same way.  The float product can only miss the truncated exact      *)
(* product when that product is an integer k and x lies below num/den:     *)
(* with x = m / 2^s, m the significand, the product is short of k by       *)
(* d / 2^s, and it is rounded to a float below k, so that int gives k - 1, *)
(* when d exceeds half the spacing of the floats below k.                  *)
FloatProductFloor(ps, ef) ==
    LET g == GCD(ef[1], ef[2])
        num == ef[1] \div g
        den == ef[2] \div g
        k == (ps * num) \div den
    IN IF ps * num <= 0 THEN 0
       ELSE IF (ps * num) % den # 0 \/ k = 0 THEN k
       ELSE LET e == FloorLog2(num, den)
                q == (num * Pow2Mod(52 - e, den)) % den
                d == (ps * q) \div den
                top == FloorLog2(k, 1)
                half == IF k = Pow2(top) THEN top - e - 2 ELSE top - e - 1
            IN IF q = 0 \/ 2 * q > den THEN k
               ELSE IF half < 0 \/ d > Pow2(half) THEN k - 1
               ELSE k

(* Line 160: max(2, int(self.pop_size * self.elite_frac)), elite_frac the  *)
(* float nearest to num/den.                                               *)
NumElite(ps, ef) == Max2(2, FloatProductFloor(ps, ef))

(* for it in range(1, self.max_iters+1): another iteration follows it.     *)
LoopContinuesOneMore(i, m) == i <= m

LoopContinues(i, m) == i < m

(* A variant that also takes an equal fitness for an improvement.          *)
ImprovesOrTies(new_f, old_f) == new_f <= old_f

(* The comparisons curr_fit < best_fit, new_f < start_f, new_f < best_fit. *)
ImprovesReversed(new_f, old_f) == new_f > old_f

Improves(new_f, old_f) == new_f < old_f

(* The test best_fit == 0 that ends the run with done.                     *)
SolvedFitnessNever(f) == f < 0

SolvedFitness(f) == f = 0

SwapInRow(board, r, c1, c2) ==
    [board EXCEPT ![r + 1] = [@ EXCEPT ![c1 + 1] = Cell(board, r, c2),
                                       ![c2 + 1] = Cell(board, r, c1)]]

(* A variant of mutable_cols that does not look at the fixed mask.         *)
PolishColsAnyColumn(pz, r, c1) == {c \in Idx(pz) : c # c1}

(* mutable_cols of the greedy polish.                                      *)
PolishCols(pz, r, c1) == {c \in Idx(pz) : ~fixed(pz, r, c) /\ c # c1}

(* mutable of the mutation.                                                *)
MutableCols(pz, r) == {c \in Idx(pz) : ~fixed(pz, r, c)}

(* The events, field by field in the order of the yielded tuples.          *)
BoardEvent(tag, board, fit, iter, cells) ==
    [tag |-> tag, board |-> board, fitness |-> fit, iteration |-> iter, cells |-> cells]

(* A variant that reports the values the two cells hold before the swap.   *)
SwapTryEventOldValues(r, c1, v1, c2, v2) ==
    [tag |-> "swap_try", row |-> r, col1 |-> c1, newVal1 |-> v2, col2 |-> c2, newVal2 |-> v1]

SwapTryEvent(r, c1, v1, c2, v2) ==
    [tag |-> "swap_try", row |-> r, col1 |-> c1, newVal1 |-> v1, col2 |-> c2, newVal2 |-> v2]

(* A variant that names the first column twice.                            *)
SwapResetEventSameColumn(r, c1, c2) ==
    [tag |-> "swap_reset", row |-> r, col1 |-> c1, col2 |-> c1]

SwapResetEvent(r, c1, c2) == [tag |-> "swap_reset", row |-> r, col1 |-> c1, col2 |-> c2]

----------------------------------------------------------------------------
(* The puzzles and configurations the solver is constructed with.          *)

Sol4 == << <<1, 2, 3, 4>>, <<3, 4, 1, 2>>, <<2, 1, 4, 3>>, <<4, 3, 2, 1>> >>

Sol6 == << <<1, 2, 3, 4, 5, 6>>, <<4, 5, 6, 1, 2, 3>>, <<2, 3, 1, 5, 6, 4>>,
           <<5, 6, 4, 2, 3, 1>>, <<3, 1, 2, 6, 4, 5>>, <<6, 4, 5, 3, 1, 2>> >>

Sol9 == << <<1, 2, 3, 4, 5, 6, 7, 8, 9>>, <<4, 5, 6, 7, 8, 9, 1, 2, 3>>,
           <<7, 8, 9, 1, 2, 3, 4, 5, 6>>, <<2, 3, 4, 5, 6, 7, 8, 9, 1>>,
           <<5, 6, 7, 8, 9, 1, 2, 3, 4>>, <<8, 9, 1, 2, 3, 4, 5, 6, 7>>,
           <<3, 4, 5, 6, 7, 8, 9, 1, 2>>, <<6, 7, 8, 9, 1, 2, 3, 4, 5>>,
           <<9, 1, 2, 3, 4, 5, 6, 7, 8>> >>

(* The board with the given cells emptied.                                 *)
Removed(board, cells) ==
    [r \in 1..Len(board) |-> [c \in 1..Len(board) |->
        IF <<r - 1, c - 1>> \in cells THEN 0 ELSE board[r][c]]]

(* A valid solution with exactly one cell removed.                         *)
OneMissing == {Removed(Sol4, {rc}) : rc \in (0..3) \X (0..3)}

(* Two rows with two empty cells each, spanning two blocks.                *)
PzTwoRows == Removed(Sol4, {<<0, 1>>, <<0, 2>>, <<1, 1>>, <<1, 2>>})

(* Two clues collide in column 0 (and in block 0); rows are consistent.    *)
PzColClash == << <<1, 2, 0, 0>>, <<1, 4, 0, 2>>, <<2, 1, 4, 3>>, <<4, 3, 2, 1>> >>

(* Clues collide in columns 0 and 2; every colliding cell is a clue.       *)
PzClashFixed == << <<1, 2, 3, 4>>, <<1, 4, 3, 2>>, <<2, 1, 4, 3>>, <<4, 3, 2, 0>> >>

(* Rows 0 and 1 repeat a clue; columns and blocks can still be made valid. *)
PzRowDup == << <<1, 2, 1, 0>>, <<3, 4, 2, 4>>, <<2, 3, 4, 1>>, <<4, 1, 3, 2>> >>

(* A Latin square that is no Sudoku solution: rows and columns can be made *)
(* valid, but the clues collide in blocks 1, 2 and 3.                      *)
PzLatin == << <<0, 0, 3, 4>>, <<2, 1, 4, 3>>, <<3, 4, 1, 2>>, <<4, 3, 2, 1>> >>

(* A 6x6 puzzle (2x3 blocks) with two empty cells in row 0.                *)
Pz6 == Removed(Sol6, {<<0, 2>>, <<0, 3>>})

(* Three empty cells in row 0.                                             *)
PzWide == Removed(Sol4, {<<0, 0>>, <<0, 1>>, <<0, 2>>})

ExplorePuzzles ==
    {PzTwoRows, PzColClash, PzClashFixed, PzLatin, PzRowDup, Pz6,
     Removed(Sol4, {<<3, 3>>})}

ExploreConfigs ==
    {[puzzle |-> p, pop_size |-> n, elite_frac |-> <<1, 10>>, max_iters |-> m] :
        p \in ExplorePuzzles, n \in 2..MaxPop, m \in 0..MaxIters}

(* pop_size=10, elite_frac=0.2, max_iters=50 on a one-cell puzzle.         *)
ScenarioConfigs ==
    {[puzzle |-> p, pop_size |-> 10, elite_frac |-> <<1, 5>>, max_iters |-> 50] :
        p \in OneMissing}

(* The wider puzzle, with the smallest population.                         *)
WideConfigs ==
    {[puzzle |-> PzWide, pop_size |-> 2, elite_frac |-> <<1, 10>>, max_iters |-> m] :
        m \in 0..MaxIters}

(* Populations whose product with elite_frac is no integer: 4 * 0.7 = 2.8  *)
(* and 15 * 0.25 = 3.75; and one whose float product, 22 * (15/22) =       *)
(* 14.999999999999998, lies below the exact product 15.                    *)
EliteConfigs ==
    {[puzzle |-> Removed(Sol4, {<<0, 1>>, <<0, 2>>}), pop_size |-> 4,
      elite_frac |-> <<7, 10>>, max_iters |-> 1],
     [puzzle |-> Removed(Sol4, {<<3, 3>>}), pop_size |-> 15,
      elite_frac |-> <<1, 4>>, max_iters |-> 1],
     [puzzle |-> Removed(Sol4, {<<3, 3>>}), pop_size |-> 22,
      elite_frac |-> <<15, 22>>, max_iters |-> 1]}

(* A puzzle on which a polish swap can leave the fitness as it was.        *)
PzTie == Removed(Sol4, {<<0, 0>>, <<0, 3>>, <<1, 1>>, <<1, 2>>})

TieConfigs ==
    {[puzzle |-> PzTie, pop_size |-> 2, elite_frac |-> <<1, 10>>, max_iters |-> m] :
        m \in 0..MaxIters}

Configs ==
    ExploreConfigs \cup WideConfigs \cup ScenarioConfigs \cup EliteConfigs \cup TieConfigs

(* Configurations outside the caller's contract: a 3x3 and a 5x5 puzzle,   *)
(* populations of 0 and 1, a puzzle with no empty cell.                    *)
Pz3 == << <<0, 0, 3>>, <<2, 3, 1>>, <<3, 1, 2>> >>

Pz5 == << <<0, 0, 3, 4, 5>>, <<2, 3, 4, 5, 1>>, <<3, 4, 5, 1, 2>>,
          <<4, 5, 1, 2, 3>>, <<5, 1, 2, 3, 4>> >>

MalformedConfigs ==
    {[puzzle |-> p, pop_size |-> 3, elite_frac |-> <<1, 10>>, max_iters |-> m] :
        p \in {Pz3, Pz5, Sol4}, m \in 0..MaxIters}
    \cup
    {[puzzle |-> PzTwoRows, pop_size |-> n, elite_frac |-> <<1, 10>>, max_iters |-> m] :
        n \in 0..1, m \in 0..MaxIters}

(* The puzzles whose boards are handed to fitness / get_conflicted_cells.  *)
ProbePuzzles ==
    {Removed(Sol4, {<<0, 0>>, <<0, 1>>, <<0, 2>>, <<0, 3>>, <<2, 0>>, <<2, 1>>, <<2, 2>>}),
     Removed(Sol6, {<<0, 2>>, <<0, 3>>, <<0, 4>>, <<3, 0>>, <<3, 5>>}),
     Removed(Sol9, {<<0, 0>>, <<0, 4>>, <<0, 8>>, <<4, 2>>, <<4, 3>>}),
     PzTwoRows, PzColClash, PzClashFixed, PzLatin, PzRowDup}

----------------------------------------------------------------------------
(* The state after CulturalSolverImpl(puzzle, pop_size, elite_frac,         *)
(* max_iters) and solve_gen() (a generator runs nothing until asked).      *)

(* The controller after __init__: request_new_puzzle has called            *)
(* stop_solving, no thread was started and nothing is scheduled.           *)
ControllerIdle ==
    /\ solving = FALSE
    /\ stop_event = TRUE
    /\ runs = <<>>
    /\ ui_queue = <<>>

(* No backtracking generator has been created.                             *)
BacktrackingIdle ==
    /\ bt_pc = "none" /\ work_board = <<>> /\ stack = <<>>
    /\ step_count = 0 /\ bt_events = <<>>

(* No list object has been allocated.                                      *)
HeapIdle == heap = <<>> /\ refs = <<>>

SolverIdle ==
    /\ pc = "created"
    /\ pop = <<>> /\ fits = <<>> /\ best = <<>> /\ best_fit = Inf
    /\ it = 0 /\ num_elite = 0 /\ bad_cells = {}
    /\ polished = <<>> /\ swap = <<>>
    /\ new_pop = <<>> /\ new_fits = <<>> /\ child = <<>>
    /\ events = <<>> /\ zero_made = FALSE

Init ==
    /\ \E cfg \in Configs :
          /\ puzzle = cfg.puzzle
          /\ pop_size = cfg.pop_size
          /\ elite_frac = cfg.elite_frac
          /\ max_iters = cfg.max_iters
    /\ belief = BeliefSpaceInit(SizeN(puzzle))
    /\ SolverIdle
    /\ probe = <<>> /\ probe_fit = 0 /\ probe_cells = {}
    /\ draw = -1 /\ target_row = -1
    /\ BacktrackingIdle
    /\ HeapIdle
    /\ ControllerIdle

config_vars == <<puzzle, pop_size, elite_frac, max_iters>>

----------------------------------------------------------------------------
(* solve_gen, from one suspension point to the next.                       *)

Emit(e) == events' = Append(events, e)

(* Lines 147-153: the initial population and the init event.               *)
Start ==
    /\ pc = "created"
    /\ pop_size >= 1
    /\ ~FitnessRaises(puzzle)
    /\ \E p \in [1..pop_size -> random_ind(puzzle)] :
          LET f == [i \in 1..pop_size |-> fitness(puzzle, p[i])]
              bi == FirstMinIndex(f)
          IN /\ pop' = p
             /\ fits' = f
             /\ best' = p[bi]
             /\ best_fit' = f[bi]
             /\ Emit(BoardEvent("init", clone_board(p[bi]), f[bi], 0, {}))
             /\ zero_made' = (\E i \in 1..pop_size : f[i] = 0)
    /\ pc' = "init"
    /\ UNCHANGED <<config_vars, belief, it, num_elite, bad_cells, polished, swap,
                   new_pop, new_fits, child, probe_vars, ctl_vars,
                   bt_vars, heap_vars>>

AtLoopHead == pc \in {"init", "loop"}

(* After line 226, pop = new_pop, the two names are one list object until  *)
(* line 203 binds new_pop again: what sorts or assigns into pop until then *)
(* shows in new_pop.                                                       *)
PopIsNewPop ==
    \/ pc = "loop"
    \/ it >= 2 /\ pc \in {"iter", "swap_try", "swap_reset"}

(* Lines 155-174: sort, belief-space update, best-so-far, the iter event.  *)
(* pop.sort() sorts the list in place.                                     *)
IterBegin ==
    /\ AtLoopHead
    /\ LoopContinues(it, max_iters)
    /\ LET order == SortOrder(fits)
           spop == [k \in 1..Len(pop) |-> pop[order[k]]]
           sfits == [k \in 1..Len(pop) |-> fits[order[k]]]
           ne == NumElite(pop_size, elite_frac)
           curr_best == spop[1]
           curr_fit == sfits[1]
           bad == get_conflicted_cells(puzzle, curr_best)
           better == Improves(curr_fit, best_fit)
       IN /\ it' = it + 1
          /\ pop' = spop
          /\ fits' = sfits
          /\ num_elite' = ne
          /\ belief' = BeliefUpdate(belief, puzzle, Prefix(spop, ne), Prefix(sfits, ne))
          /\ bad_cells' = bad
          /\ best_fit' = IF better THEN curr_fit ELSE best_fit
          /\ best' = IF better THEN clone_board(curr_best) ELSE best
          /\ Emit(BoardEvent("iter", clone_board(curr_best), best_fit', it', bad))
          /\ IF PopIsNewPop
             THEN new_pop' = spop /\ new_fits' = sfits
             ELSE UNCHANGED <<new_pop, new_fits>>
    /\ pc' = "iter"
    /\ UNCHANGED <<config_vars, polished, swap, child,
                   zero_made, probe_vars, ctl_vars,
                   bt_vars, heap_vars>>

(* A variant of the cloning that hands each clone the cached fitness of    *)
(* the last individual instead of pop[0]'s.                                *)
CloneElitesLastFitness(p, f) ==
    /\ new_pop' = [i \in 1..Len(Prefix(p, num_elite)) |-> clone_board(p[i])]
    /\ new_fits' = [i \in 1..Len(Prefix(p, num_elite)) |-> f[Len(f)]]

(* A variant of the cloning that leaves out pop[0] and starts at pop[1].   *)
CloneElitesDropBest(p, f) ==
    /\ new_pop' = [i \in 1..(Len(Prefix(p, num_elite)) - 1) |-> clone_board(p[i + 1])]
    /\ new_fits' = [i \in 1..(Len(Prefix(p, num_elite)) - 1) |-> f[1]]

(* Lines 200-203: the elites are cloned into new_pop, each with the cached  *)
(* fitness of pop[0].                                                      *)
CloneElites(p, f) ==
    /\ new_pop' = [i \in 1..Len(Prefix(p, num_elite)) |-> clone_board(p[i])]
    /\ new_fits' = [i \in 1..Len(Prefix(p, num_elite)) |-> f[1]]

(* Lines 177-182 when no swap is tried: no conflicted cell, or the chosen   *)
(* cell has no other non-fixed column in its row; then polished has been   *)
(* assigned (line 178).  swap stays the (r, c1, c2) of the last swap_try.  *)
PolishSkip ==
    /\ pc = "iter"
    /\ \/ /\ bad_cells = {}
          /\ UNCHANGED polished
       \/ \E rc \in bad_cells :
             /\ PolishCols(puzzle, rc[1], rc[2]) = {}
             /\ polished' = clone_board(pop[1])
    /\ UNCHANGED swap
    /\ CloneElites(pop, fits)
    /\ pc' = "breed"
    /\ UNCHANGED <<config_vars, belief, pop, fits, best, best_fit, it, num_elite,
                   bad_cells, child, events, zero_made, probe_vars, ctl_vars,
                   bt_vars, heap_vars>>

(* Lines 177-184: the swap_try event.                                      *)
SwapTry ==
    /\ pc = "iter"
    /\ \E rc \in bad_cells : \E c2 \in PolishCols(puzzle, rc[1], rc[2]) :
          /\ polished' = clone_board(pop[1])
          /\ swap' = <<rc[1], rc[2], c2>>
          /\ Emit(SwapTryEvent(rc[1], rc[2], Cell(pop[1], rc[1], c2), c2,
                               Cell(pop[1], rc[1], rc[2])))
    /\ pc' = "swap_try"
    /\ UNCHANGED <<config_vars, belief, pop, fits, best, best_fit, it, num_elite,
                   bad_cells, new_pop, new_fits, child, zero_made, probe_vars, ctl_vars,
                   bt_vars, heap_vars>>

(* Lines 185-186: the swap and the swap_reset event.                       *)
SwapReset ==
    /\ pc = "swap_try"
    /\ polished' = SwapInRow(polished, swap[1], swap[2], swap[3])
    /\ Emit(SwapResetEvent(swap[1], swap[2], swap[3]))
    /\ zero_made' = (zero_made \/ fitness(puzzle, polished') = 0)
    /\ pc' = "swap_reset"
    /\ UNCHANGED <<config_vars, belief, pop, fits, best, best_fit, it, num_elite,
                   bad_cells, swap, new_pop, new_fits, child, probe_vars, ctl_vars,
                   bt_vars, heap_vars>>

(* Lines 187-203: the polished clone is kept on strict improvement; a      *)
(* zero fitness ends the run with done.                                    *)
PolishEvaluate ==
    /\ pc = "swap_reset"
    /\ LET new_f == fitness(puzzle, polished)
           start_f == fits[1]
           accept == Improves(new_f, start_f)
           better == accept /\ Improves(new_f, best_fit)
           pop1 == IF accept THEN [pop EXCEPT ![1] = polished] ELSE pop
           fits1 == IF accept THEN [fits EXCEPT ![1] = new_f] ELSE fits
       IN /\ pop' = pop1
          /\ fits' = fits1
          /\ best_fit' = IF better THEN new_f ELSE best_fit
          /\ best' = IF better THEN clone_board(polished) ELSE best
          /\ IF better /\ SolvedFitness(best_fit')
             THEN /\ Emit(BoardEvent("done", best', 0, it, {}))
                  /\ pc' = "done"
                  /\ IF PopIsNewPop
                     THEN new_pop' = pop1 /\ new_fits' = fits1
                     ELSE UNCHANGED <<new_pop, new_fits>>
             ELSE /\ CloneElites(pop1, fits1)
                  /\ pc' = "breed"
                  /\ UNCHANGED events
    /\ UNCHANGED <<config_vars, belief, it, num_elite, bad_cells, polished, swap,
                   child, zero_made, probe_vars, ctl_vars,
                   bt_vars, heap_vars>>

(* Lines 204-210: crossover.  elites is the cloned prefix of new_pop.      *)
Crossover ==
    /\ pc = "breed"
    /\ Len(new_pop) < pop_size
    /\ LET elites == Prefix(new_pop, Len(Prefix(pop, num_elite)))
           half == Prefix(pop, pop_size \div 2)
       IN \E i1 \in 1..Len(elites), i2 \in 1..Len(half), use_p1 \in BOOLEAN,
             from_p2 \in SUBSET Idx(puzzle) :
             LET p1 == elites[i1]
                 p2 == half[i2]
                 base == IF use_p1 THEN p1 ELSE p2
             IN child' = [r \in 1..SizeN(puzzle) |->
                            IF (r - 1) \in from_p2 THEN p2[r] ELSE base[r]]
    /\ pc' = "child"
    /\ UNCHANGED <<config_vars, belief, pop, fits, best, best_fit, it, num_elite,
                   bad_cells, polished, swap, new_pop, new_fits, events, zero_made,
                   probe_vars, ctl_vars,
                   bt_vars, heap_vars>>

(* The children the mutation step (lines 213-221) can turn c into.         *)
Mutations(c) ==
    {c} \cup
    UNION {IF Cardinality(MutableCols(puzzle, r)) >= 2
           THEN {SwapInRow(c, r, c1, c2) :
                    <<c1, c2>> \in {cc \in MutableCols(puzzle, r) \X MutableCols(puzzle, r) :
                                       cc[1] # cc[2]}}
           ELSE {c} : r \in TargetRows(belief)}

(* Lines 213-224: mutation, then the child joins new_pop with its fitness. *)
Mutate ==
    /\ pc = "child"
    /\ \E m \in Mutations(child) :
          /\ child' = m
          /\ new_pop' = Append(new_pop, m)
          /\ new_fits' = Append(new_fits, fitness(puzzle, m))
          /\ zero_made' = (zero_made \/ fitness(puzzle, m) = 0)
    /\ pc' = "breed"
    /\ UNCHANGED <<config_vars, belief, pop, fits, best, best_fit, it, num_elite,
                   bad_cells, polished, swap, events, probe_vars, ctl_vars,
                   bt_vars, heap_vars>>

(* Lines 226-230: the new population replaces the old one; done when the   *)
(* best-so-far fitness is zero.                                            *)
EndGeneration ==
    /\ pc = "breed"
    /\ Len(new_pop) >= pop_size
    /\ pop' = new_pop
    /\ fits' = new_fits
    /\ IF SolvedFitness(best_fit)
       THEN /\ Emit(BoardEvent("done", best, 0, it, {}))
            /\ pc' = "done"
       ELSE /\ pc' = "loop"
            /\ UNCHANGED events
    /\ UNCHANGED <<config_vars, belief, best, best_fit, it, num_elite, bad_cells,
                   polished, swap, new_pop, new_fits, child, zero_made, probe_vars, ctl_vars,
                   bt_vars, heap_vars>>

(* Lines 232-233: the loop is exhausted.                                   *)
Fail ==
    /\ AtLoopHead
    /\ ~LoopContinues(it, max_iters)
    /\ Emit(BoardEvent("fail", best, best_fit, max_iters, get_conflicted_cells(puzzle, best)))
    /\ pc' = "fail"
    /\ UNCHANGED <<config_vars, belief, pop, fits, best, best_fit, it, num_elite,
                   bad_cells, polished, swap, new_pop, new_fits, child, zero_made,
                   probe_vars, ctl_vars,
                   bt_vars, heap_vars>>

(* The generator is resumed after its last yield and returns.              *)
Return ==
    /\ pc \in {"done", "fail"}
    /\ pc' = "returned"
    /\ UNCHANGED <<config_vars, belief, pop, fits, best, best_fit, it, num_elite,
                   bad_cells, polished, swap, new_pop, new_fits, child, events,
                   zero_made, probe_vars, ctl_vars,
                   bt_vars, heap_vars>>

Next ==
    \/ Start
    \/ IterBegin
    \/ PolishSkip
    \/ SwapTry
    \/ SwapReset
    \/ PolishEvaluate
    \/ Crossover
    \/ Mutate
    \/ EndGeneration
    \/ Fail
    \/ Return

Spec == Init /\ [][Next]_vars

----------------------------------------------------------------------------
(* The solver constructed outside its contract.  __init__ validates        *)
(* nothing; the first request for an event runs lines 147-150, where       *)
(* fitness raises IndexError on the first individual when the blocks do    *)
(* not tile the board, and min() raises ValueError on an empty population. *)

MalformedInit ==
    /\ \E cfg \in MalformedConfigs :
          /\ puzzle = cfg.puzzle
          /\ pop_size = cfg.pop_size
          /\ elite_frac = cfg.elite_frac
          /\ max_iters = cfg.max_iters
    /\ belief = BeliefSpaceInit(SizeN(puzzle))
    /\ SolverIdle
    /\ probe = <<>> /\ probe_fit = 0 /\ probe_cells = {}
    /\ draw = -1 /\ target_row = -1
    /\ BacktrackingIdle
    /\ HeapIdle
    /\ ControllerIdle

StartRaises ==
    /\ pc = "created"
    /\ pop_size < 1 \/ FitnessRaises(puzzle)
    /\ pc' = "raised"
    /\ UNCHANGED <<config_vars, belief, pop, fits, best, best_fit, it, num_elite,
                   bad_cells, polished, swap, new_pop, new_fits, child, events,
                   zero_made, probe_vars, ctl_vars,
                   bt_vars, heap_vars>>

MalformedNext == Next \/ StartRaises

MalformedSpec == MalformedInit /\ [][MalformedNext]_vars

----------------------------------------------------------------------------
(* src/Controllers/controller.py: the UI thread runs start_solving,        *)
(* stop_solving, request_new_puzzle and the _finish_solve callbacks        *)
(* scheduled with root.after; each start_solving starts one thread running *)
(* _solve_loop.                                                            *)
(* A thread is a record: pc is the line it is about to run, left the       *)
(* number of events its generator still yields; stopped, pulled_after and  *)
(* forwarded_after are history: stop_solving was called while the thread   *)
(* was alive, and the events it pulled and forwarded since then.           *)

(* sudoku_logic.py, as the controller uses it.                             *)

(* A variant of valid_in_cell without the block test of lines 29-32.       *)
valid_in_cell_no_block(b, r, c, val) ==
    \/ val = 0
    \/ /\ \A j \in Idx(b) : Cell(b, r, j) # val
       /\ \A i \in Idx(b) : Cell(b, i, c) # val

(* sudoku_logic.py lines 21-33.                                            *)
valid_in_cell(b, r, c, val) ==
    \/ val = 0
    \/ /\ \A j \in Idx(b) : Cell(b, r, j) # val
       /\ \A i \in Idx(b) : Cell(b, i, c) # val
       /\ LET start_r == (r \div br_h(b)) * br_h(b)
              start_c == (c \div bc_w(b)) * bc_w(b)
          IN \A i \in start_r..(start_r + br_h(b) - 1) :
                \A j \in start_c..(start_c + bc_w(b) - 1) : Cell(b, i, j) # val

SetCell(b, r, c, v) == [b EXCEPT ![r + 1][c + 1] = v]

(* The board sizes the view offers (view.py line 49).                      *)
Sizes == {4, 6, 9}

(* sudoku_logic.py line 55: remove_count = int(N * N * difficulty) with    *)
(* difficulty 0.5, a product that is exact in floating point.              *)
remove_count(N) == (N * N) \div 2

(* sudoku_logic.py lines 39-51: fill(b) returns True when the empty cells  *)
(* of b can be given values, first empty cell first, each valid where it   *)
(* is put.  The values are tried in a shuffled order and every order can   *)
(* come up, so the search ends on whichever completion the shuffles lead   *)
(* to and returns False only when there is none.                           *)
RECURSIVE fill(_)
fill(b) ==
    LET empty == {rc \in Idx(b) \X Idx(b) : Cell(b, rc[1], rc[2]) = 0}
    IN IF empty = {} THEN TRUE
       ELSE LET ij == CHOOSE rc \in empty :
                         \A o \in empty : rc[1] < o[1] \/ (rc[1] = o[1] /\ rc[2] <= o[2])
            IN \E n \in 1..SizeN(b) :
                  /\ valid_in_cell(b, ij[1], ij[2], n)
                  /\ fill(SetCell(b, ij[1], ij[2], n))

(* The boards fill(board) can leave in the empty board of line 37: every   *)
(* completed board in which each value is valid in its cell.               *)
FullBoards(N) ==
    {f \in [1..N -> [1..N -> 1..N]] :
        \A rc \in Idx(f) \X Idx(f) :
           valid_in_cell(SetCell(f, rc[1], rc[2], 0), rc[1], rc[2], Cell(f, rc[1], rc[2]))}

(* Lines 56-59: cells[:remove_count] of the shuffled cells is any set of   *)
(* remove_count cells.                                                     *)
ShuffledPrefixes(N) ==
    {S \in SUBSET ((0..(N - 1)) \X (0..(N - 1))) : Cardinality(S) = remove_count(N)}

(* The cells of p that hold 0, and whether the others are values that are  *)
(* valid where they are.                                                   *)
ZeroCells(p) == {rc \in Idx(p) \X Idx(p) : Cell(p, rc[1], rc[2]) = 0}

CluesValid(p) ==
    \A rc \in (Idx(p) \X Idx(p)) \ ZeroCells(p) :
       valid_in_cell(SetCell(p, rc[1], rc[2], 0), rc[1], rc[2], Cell(p, rc[1], rc[2]))

(* sudoku_logic.py lines 35-61: what generate_puzzle(N) can return, the    *)
(* boards Removed(f, S) with f in FullBoards(N) and S in                   *)
(* ShuffledPrefixes(N).  These are the boards with remove_count cells      *)
(* empty whose other cells are valid and which some completed board        *)
(* extends, a test that needs no enumeration of the completed boards.      *)
generate_puzzle(N) ==
    {p \in [1..N -> [1..N -> 0..N]] :
        /\ ZeroCells(p) \in ShuffledPrefixes(N)
        /\ CluesValid(p)
        /\ fill(p)}

(* Outcomes of generate_puzzle(N): the completed board and the emptied     *)
(* cells of generate_puzzle(N) run after random.seed(0), random.seed(1)    *)
(* and random.seed(2).                                                     *)
SeededRuns(N) ==
    CASE
    N = 4 ->
    <<
       << << <<3, 1, 2, 4>>, <<4, 2, 3, 1>>, <<2, 4, 1, 3>>, <<1, 3, 4, 2>> >>,
         {<<0, 0>>, <<0, 1>>, <<1, 0>>, <<1, 1>>, <<1, 2>>, <<2, 2>>, <<2, 3>>, <<3, 1>>}>>,
       << << <<4, 2, 1, 3>>, <<3, 1, 2, 4>>, <<2, 3, 4, 1>>, <<1, 4, 3, 2>> >>,
         {<<0, 0>>, <<0, 1>>, <<0, 2>>, <<1, 0>>, <<1, 3>>, <<2, 1>>, <<3, 1>>, <<3, 3>>}>>,
       << << <<2, 4, 1, 3>>, <<1, 3, 2, 4>>, <<3, 1, 4, 2>>, <<4, 2, 3, 1>> >>,
         {<<0, 0>>, <<0, 1>>, <<0, 2>>, <<0, 3>>, <<1, 2>>, <<2, 1>>, <<2, 2>>, <<3, 1>>}>>
    >>
    []
    N = 6 ->
    <<
       << << <<5, 1, 6, 4, 2, 3>>, <<2, 3, 4, 5, 1, 6>>, <<4, 6, 2, 1, 3, 5>>,
             <<1, 5, 3, 2, 6, 4>>, <<3, 4, 1, 6, 5, 2>>, <<6, 2, 5, 3, 4, 1>> >>,
         {<<0, 2>>, <<0, 3>>, <<1, 0>>, <<1, 4>>, <<2, 0>>, <<2, 1>>, <<2, 2>>, <<2, 4>>,
          <<3, 2>>, <<4, 1>>, <<4, 2>>, <<4, 3>>, <<4, 4>>, <<5, 0>>, <<5, 1>>, <<5, 2>>,
          <<5, 3>>, <<5, 4>>}>>,
       << << <<3, 1, 6, 2, 4, 5>>, <<5, 4, 2, 6, 1, 3>>, <<2, 5, 3, 1, 6, 4>>,
             <<1, 6, 4, 3, 5, 2>>, <<4, 2, 1, 5, 3, 6>>, <<6, 3, 5, 4, 2, 1>> >>,
         {<<0, 1>>, <<1, 0>>, <<1, 1>>, <<1, 4>>, <<1, 5>>, <<2, 0>>, <<2, 2>>, <<2, 3>>,
          <<2, 4>>, <<2, 5>>, <<3, 2>>, <<3, 3>>, <<3, 4>>, <<4, 0>>, <<4, 1>>, <<4, 4>>,
          <<5, 1>>, <<5, 4>>}>>,
       << << <<3, 2, 6, 1, 4, 5>>, <<4, 5, 1, 2, 6, 3>>, <<1, 6, 4, 5, 3, 2>>,
             <<5, 3, 2, 4, 1, 6>>, <<2, 4, 3, 6, 5, 1>>, <<6, 1, 5, 3, 2, 4>> >>,
         {<<0, 1>>, <<0, 2>>, <<0, 4>>, <<1, 2>>, <<1, 4>>, <<1, 5>>, <<2, 0>>, <<2, 1>>,
          <<2, 5>>, <<3, 0>>, <<3, 1>>, <<3, 4>>, <<3, 5>>, <<4, 1>>, <<4, 2>>, <<4, 3>>,
          <<4, 4>>, <<5, 4>>}>>
    >>
    []
    N = 9 ->
    <<
       << << <<8, 3, 1, 7, 2, 5, 4, 6, 9>>, <<4, 7, 9, 1, 8, 6, 3, 2, 5>>,
             <<2, 6, 5, 4, 3, 9, 8, 7, 1>>, <<3, 8, 7, 6, 4, 1, 9, 5, 2>>,
             <<5, 1, 2, 3, 9, 7, 6, 4, 8>>, <<6, 9, 4, 2, 5, 8, 7, 1, 3>>,
             <<9, 4, 6, 5, 1, 3, 2, 8, 7>>, <<7, 5, 3, 8, 6, 2, 1, 9, 4>>,
             <<1, 2, 8, 9, 7, 4, 5, 3, 6>> >>,
         {<<0, 1>>, <<0, 6>>, <<0, 7>>, <<0, 8>>, <<1, 3>>, <<1, 5>>, <<1, 7>>, <<2, 2>>,
          <<2, 5>>, <<2, 6>>, <<2, 8>>, <<3, 0>>, <<3, 1>>, <<4, 2>>, <<4, 3>>, <<4, 4>>,
          <<4, 5>>, <<4, 8>>, <<5, 1>>, <<5, 4>>, <<5, 5>>, <<5, 6>>, <<5, 7>>, <<6, 1>>,
          <<6, 2>>, <<6, 3>>, <<6, 5>>, <<6, 6>>, <<6, 7>>, <<6, 8>>, <<7, 1>>, <<7, 2>>,
          <<7, 3>>, <<7, 4>>, <<7, 5>>, <<7, 7>>, <<8, 0>>, <<8, 2>>, <<8, 3>>, <<8, 4>>}>>,
       << << <<6, 8, 3, 2, 9, 5, 4, 1, 7>>, <<4, 2, 1, 8, 6, 7, 3, 5, 9>>,
             <<7, 9, 5, 3, 4, 1, 8, 6, 2>>, <<5, 7, 2, 1, 3, 4, 9, 8, 6>>,
             <<8, 4, 6, 5, 7, 9, 1, 2, 3>>, <<3, 1, 9, 6, 8, 2, 5, 7, 4>>,
             <<1, 3, 8, 4, 2, 6, 7, 9, 5>>, <<9, 6, 4, 7, 5, 8, 2, 3, 1>>,
             <<2, 5, 7, 9, 1, 3, 6, 4, 8>> >>,
         {<<0, 0>>, <<1, 0>>, <<1, 1>>, <<1, 4>>, <<1, 5>>, <<1, 6>>, <<2, 0>>, <<2, 3>>,
          <<2, 4>>, <<2, 5>>, <<3, 0>>, <<3, 2>>, <<3, 3>>, <<3, 4>>, <<3, 5>>, <<3, 7>>,
          <<3, 8>>, <<4, 0>>, <<4, 1>>, <<4, 2>>, <<4, 3>>, <<4, 5>>, <<4, 6>>, <<4, 8>>,
          <<5, 1>>, <<5, 7>>, <<5, 8>>, <<6, 1>>, <<6, 4>>, <<6, 5>>, <<6, 7>>, <<7, 5>>,
          <<7, 6>>, <<8, 0>>, <<8, 1>>, <<8, 2>>, <<8, 3>>, <<8, 5>>, <<8, 6>>, <<8, 7>>}>>,
       << << <<4, 9, 6, 8, 7, 1, 5, 2, 3>>, <<1, 5, 3, 2, 9, 4, 7, 8, 6>>,
             <<7, 8, 2, 3, 5, 6, 9, 1, 4>>, <<3, 4, 7, 5, 2, 8, 1, 6, 9>>,
             <<8, 2, 1, 6, 4, 9, 3, 5, 7>>, <<9, 6, 5, 1, 3, 7, 2, 4, 8>>,
             <<2, 7, 8, 4, 1, 3, 6, 9, 5>>, <<5, 3, 4, 9, 6, 2, 8, 7, 1>>,
             <<6, 1, 9, 7, 8, 5, 4, 3, 2>> >>,
         {<<0, 0>>, <<0, 1>>, <<0, 4>>, <<0, 5>>, <<0, 6>>, <<0, 7>>, <<1, 2>>, <<1, 8>>,
          <<2, 0>>, <<2, 4>>, <<2, 5>>, <<2, 6>>, <<3, 1>>, <<3, 2>>, <<3, 4>>, <<3, 5>>,
          <<3, 7>>, <<4, 2>>, <<4, 4>>, <<4, 6>>, <<4, 7>>, <<5, 2>>, <<5, 4>>, <<5, 5>>,
          <<5, 6>>, <<5, 7>>, <<6, 2>>, <<6, 4>>, <<6, 8>>, <<7, 1>>, <<7, 2>>, <<7, 3>>,
          <<7, 5>>, <<7, 6>>, <<7, 7>>, <<7, 8>>, <<8, 3>>, <<8, 6>>, <<8, 7>>, <<8, 8>>}>>
    >>

(* generate_puzzle within the bound MaxDraws: the first MaxDraws outcomes  *)
(* of each size, each one kept only if it is a member of generate_puzzle   *)
(* of its size.                                                            *)
DrawnPuzzles ==
    LET drawn(N) == {SeededRuns(N)[k] : k \in {j \in 1..MaxDraws : j <= Len(SeededRuns(N))}}
    IN {p \in UNION {{Removed(d[1], d[2]) : d \in drawn(N)} : N \in Sizes} :
          p \in generate_puzzle(SizeN(p))}

GeneratedPuzzles(N) == {p \in DrawnPuzzles : SizeN(p) = N}

(* strategies.py line 51: the iterations CulturalStrategy gives a board.   *)
CulturalIters(board) == IF Len(board) > 6 THEN 2000 ELSE 1000

(* controller.py lines 8-25: __init__ ends with request_new_puzzle(9),     *)
(* which stores an outcome of generate_puzzle(9): within the bound         *)
(* MaxDraws, one of GeneratedPuzzles(9).                                   *)
(* The solver parameters are the ones CulturalStrategy would construct a   *)
(* solver with on the current puzzle (strategies.py lines 51-52).          *)
ControllerInit ==
    /\ puzzle \in GeneratedPuzzles(9)
    /\ pop_size = 150 /\ elite_frac = <<1, 10>> /\ max_iters = CulturalIters(puzzle)
    /\ belief = BeliefSpaceInit(SizeN(puzzle))
    /\ SolverIdle
    /\ probe = <<>> /\ probe_fit = 0 /\ probe_cells = {}
    /\ draw = -1 /\ target_row = -1
    /\ BacktrackingIdle
    /\ HeapIdle
    /\ ControllerIdle

solver_locals == <<pop_size, elite_frac, max_iters, belief, pc, pop, fits, best,
                   best_fit, it, num_elite, bad_cells, polished, swap, new_pop,
                   new_fits, child, events, zero_made>>

Alive(run) == run.pc # "ended"

(* Lines 62-65.                                                            *)
stop_solving ==
    /\ solving' = FALSE
    /\ stop_event' = TRUE
    /\ runs' = [i \in 1..Len(runs) |->
                   IF Alive(runs[i]) THEN [runs[i] EXCEPT !.stopped = TRUE] ELSE runs[i]]

(* The fewest events a solve's generator yields.  solve_gen yields init    *)
(* (line 153), an iter in the first iteration (line 174; CulturalStrategy  *)
(* gives 1000 or 2000 iterations) and a terminal event; get_generator      *)
(* yields start, an update for every empty cell at least, and done.        *)
MinEvents == 3

(* Lines 38-60: a no-op while solving; otherwise the flags are reset and   *)
(* a thread is started on a generator of MinEvents..MaxEvents events.      *)
StartSolving ==
    /\ ~solving
    /\ Len(runs) < MaxRuns
    /\ solving' = TRUE
    /\ stop_event' = FALSE
    /\ \E n \in MinEvents..MaxEvents :
          runs' = Append(runs, [pc |-> "setup", left |-> n, stopped |-> FALSE,
                                pulled_after |-> 0, forwarded_after |-> 0])
    /\ UNCHANGED <<puzzle, solver_locals, probe_vars, bt_vars, heap_vars, ui_queue>>

StopSolving ==
    /\ stop_solving
    /\ UNCHANGED <<puzzle, solver_locals, probe_vars, bt_vars, heap_vars, ui_queue>>

(* Lines 27-33, request_new_puzzle(N) for a size the view offers: the     *)
(* solve is stopped and the board generate_puzzle(N) returns is stored     *)
(* (line 30): within the bound MaxDraws, one of GeneratedPuzzles(N).       *)
RequestNewPuzzle ==
    \E N \in Sizes : \E board \in GeneratedPuzzles(N) :
        /\ stop_solving
        /\ puzzle' = board
        /\ max_iters' = CulturalIters(board)
        /\ belief' = BeliefSpaceInit(SizeN(board))
        /\ UNCHANGED <<pop_size, elite_frac, pc, pop, fits, best, best_fit, it,
                       num_elite, bad_cells, polished, swap, new_pop, new_fits,
                       child, events, zero_made, probe_vars, bt_vars, heap_vars,
                       ui_queue>>

(* The UI thread runs the oldest scheduled _finish_solve (lines 182-185),  *)
(* which calls stop_solving.                                               *)
UiFinishSolve ==
    /\ ui_queue # <<>>
    /\ ui_queue' = Tail(ui_queue)
    /\ stop_solving
    /\ UNCHANGED <<puzzle, solver_locals, probe_vars, bt_vars, heap_vars>>

ThreadStep(i, run) ==
    /\ runs' = [runs EXCEPT ![i] = run]
    /\ UNCHANGED <<puzzle, solver_locals, probe_vars, bt_vars, heap_vars, solving, stop_event>>

(* Lines 68-70.                                                            *)
ThreadSetup ==
    \E i \in 1..Len(runs) :
        /\ runs[i].pc = "setup"
        /\ ThreadStep(i, [runs[i] EXCEPT !.pc = "pull"])
        /\ UNCHANGED ui_queue

(* Line 73: the for statement asks the generator for its next event.       *)
ThreadPull ==
    \E i \in 1..Len(runs) :
        /\ runs[i].pc = "pull"
        /\ IF runs[i].left = 0
           THEN ThreadStep(i, [runs[i] EXCEPT !.pc = "finish"])
           ELSE ThreadStep(i, [runs[i] EXCEPT
                    !.pc = "check",
                    !.left = @ - 1,
                    !.pulled_after = IF runs[i].stopped THEN @ + 1 ELSE @])
        /\ UNCHANGED ui_queue

(* Line 74.                                                                *)
ThreadCheck ==
    \E i \in 1..Len(runs) :
        /\ runs[i].pc = "check"
        /\ ThreadStep(i, [runs[i] EXCEPT !.pc = IF stop_event THEN "finish" ELSE "forward"])
        /\ UNCHANGED ui_queue

(* Lines 75-77: the event is handed to the UI thread; the pacing sleep.    *)
(* _handle_step only paints the view and records plot data, none of which  *)
(* the controller's flags or threads read, so the hand-off is recorded in  *)
(* the thread's history alone.                                             *)
ThreadForward ==
    \E i \in 1..Len(runs) :
        /\ runs[i].pc = "forward"
        /\ UNCHANGED ui_queue
        /\ ThreadStep(i, [runs[i] EXCEPT
                !.pc = "pull",
                !.forwarded_after = IF runs[i].stopped THEN @ + 1 ELSE @])

(* Line 81.                                                                *)
ThreadFinish ==
    \E i \in 1..Len(runs) :
        /\ runs[i].pc = "finish"
        /\ ui_queue' = Append(ui_queue, i)
        /\ ThreadStep(i, [runs[i] EXCEPT !.pc = "ended"])

ControllerNext ==
    \/ StartSolving
    \/ StopSolving
    \/ RequestNewPuzzle
    \/ UiFinishSolve
    \/ ThreadSetup
    \/ ThreadPull
    \/ ThreadCheck
    \/ ThreadForward
    \/ ThreadFinish

ControllerSpec == ControllerInit /\ [][ControllerNext]_vars

----------------------------------------------------------------------------
(* fitness and get_conflicted_cells as functions of a board: the solver is *)
(* constructed on a puzzle and the two methods are called on boards that   *)
(* are row-complete for its fixed mask.                                    *)

ProbeInit ==
    /\ puzzle \in ProbePuzzles
    /\ pop_size = 2 /\ elite_frac = <<1, 10>> /\ max_iters = 0
    /\ belief = BeliefSpaceInit(SizeN(puzzle))
    /\ SolverIdle
    /\ probe = <<>> /\ probe_fit = 0 /\ probe_cells = {}
    /\ draw = -1 /\ target_row = -1
    /\ BacktrackingIdle
    /\ HeapIdle
    /\ ControllerIdle

Measure(b) ==
    /\ probe' = b
    /\ probe_fit' = fitness(puzzle, b)
    /\ probe_cells' = get_conflicted_cells(puzzle, b)
    /\ UNCHANGED <<solver_vars, ctl_vars, bt_vars, heap_vars, draw, target_row>>

(* The methods are called on a board made by random_ind.                   *)
ProbeFresh ==
    /\ probe = <<>>
    /\ \E b \in random_ind(puzzle) : Measure(b)

(* The methods are called on the board after two non-fixed cells of one    *)
(* row were swapped.                                                       *)
ProbeSwapped ==
    /\ probe # <<>>
    /\ \E r \in Idx(puzzle) : \E c1, c2 \in MutableCols(puzzle, r) :
          /\ c1 # c2
          /\ Measure(SwapInRow(probe, r, c1, c2))

ProbeNext == ProbeFresh \/ ProbeSwapped

ProbeSpec == ProbeInit /\ [][ProbeNext]_vars

----------------------------------------------------------------------------
(* select_target_row as a function of the belief space: the scores are any *)
(* row totals up to MaxScore, kept in a matrix with those row sums.        *)

SelectInit ==
    /\ puzzle = PzTwoRows
    /\ pop_size = 2 /\ elite_frac = <<1, 10>> /\ max_iters = 0
    /\ \E scores \in [1..SizeN(puzzle) -> 0..MaxScore] :
          belief = [BeliefSpaceInit(SizeN(puzzle)) EXCEPT
                       !.conflict_matrix = [r \in 1..SizeN(puzzle) |->
                            [c \in 1..SizeN(puzzle) |-> IF c = 1 THEN scores[r] ELSE 0]],
                       !.row_conflict_scores = scores]
    /\ SolverIdle
    /\ probe = <<>> /\ probe_fit = 0 /\ probe_cells = {}
    /\ draw = -1 /\ target_row = -1
    /\ BacktrackingIdle
    /\ HeapIdle
    /\ ControllerIdle

SelectTargetRow ==
    /\ \E pick2 \in Draws(belief) :
          /\ draw' = pick2
          /\ target_row' \in select_target_row(belief, pick2)
    /\ UNCHANGED <<solver_vars, ctl_vars, bt_vars, heap_vars, probe, probe_fit, probe_cells>>

SelectSpec == SelectInit /\ [][SelectTargetRow]_vars

----------------------------------------------------------------------------
(* BacktrackingStrategy.get_generator (strategies.py).  The generator and  *)
(* the recursive generator it delegates to are suspended at a yield;       *)
(* stack holds the calls of recurse that have placed a value.              *)

None == "None"

(* Consistent clues without a completion: the search fails after           *)
(* backtracking.                                                           *)
PzNoCompletion == << <<0, 0, 0, 0>>, <<0, 0, 4, 3>>, <<0, 1, 0, 2>>, <<0, 0, 3, 4>> >>

(* Consistent clues with a completion that is found after backtracking,    *)
(* and with fillings that are valid in rows and columns but not in blocks. *)
PzBacktracks == << <<0, 0, 0, 4>>, <<4, 0, 0, 0>>, <<0, 4, 0, 2>>, <<2, 0, 4, 1>> >>

BtPuzzles == {PzNoCompletion, PzBacktracks, PzTwoRows, PzWide, Pz6, Sol4, PzClashFixed}

(* Lines 14-18: the first empty cell in row-major order, or None.          *)
find_empty(b) ==
    LET empty == {rc \in Idx(b) \X Idx(b) : Cell(b, rc[1], rc[2]) = 0}
    IN IF empty = {} THEN None
       ELSE CHOOSE rc \in empty :
               \A o \in empty : rc[1] < o[1] \/ (rc[1] = o[1] /\ rc[2] <= o[2])

(* Lines 25-26: the first value from lo upwards that is valid in the cell, *)
(* 0 when the loop runs out.                                               *)
FirstValid(b, r, c, lo) ==
    LET ok == {v \in lo..SizeN(b) : valid_in_cell(b, r, c, v)}
    IN IF ok = {} THEN 0 ELSE CHOOSE v \in ok : \A w \in ok : v <= w

StartEvent == <<"start", None, None, None, 0>>

UpdateEvent(r, c, val, n) == <<"update", r, c, val, n>>

(* A variant of the backtrack event that reports the value removed.        *)
BacktrackEventKeepsValue(r, c, val, n) == <<"backtrack", r, c, val, n>>

BacktrackEvent(r, c, val, n) == <<"backtrack", r, c, 0, n>>

DoneEvent(b, n) == <<"done", clone_board(b), 0, None, n>>

FailEvent(n) == <<"fail", None, 0, None, n>>

Outcome(tag, b, st, n, e) == [pc |-> tag, board |-> b, stack |-> st, step_count |-> n, event |-> e]

(* Lines 27-31: the value is placed and the update event yielded.          *)
Place(b, st, r, c, v, n) ==
    Outcome("update", SetCell(b, r, c, v), st, n + 1, UpdateEvent(r, c, v, n + 1))

(* Line 40 seen from the caller: a call of recurse returned False.  The    *)
(* caller is the generator itself (lines 46-47) or the innermost call of   *)
(* st, which empties its cell and yields backtrack (lines 35-39).          *)
ReturnedFalse(b, st, n) ==
    IF st = <<>>
    THEN Outcome("fail", b, st, n, FailEvent(n))
    ELSE LET top == st[Len(st)]
         IN Outcome("backtrack", SetCell(b, top[1], top[2], 0), st, n + 1,
                    BacktrackEvent(top[1], top[2], top[3], n + 1))

(* Lines 22-33 for a new call of recurse: no empty cell returns True up to *)
(* the generator, which yields done (lines 44-45).                         *)
Recurse(b, st, n) ==
    LET cell == find_empty(b)
    IN IF cell = None THEN Outcome("done", b, <<>>, n, DoneEvent(b, n))
       ELSE LET v == FirstValid(b, cell[1], cell[2], 1)
            IN IF v # 0 THEN Place(b, Append(st, <<cell[1], cell[2], v>>), cell[1], cell[2], v, n)
               ELSE ReturnedFalse(b, st, n)

(* Lines 25-40 for the innermost call resumed after its backtrack event:   *)
(* the loop goes on with the next value.                                   *)
NextValue(b, st, n) ==
    LET top == st[Len(st)]
        v == FirstValid(b, top[1], top[2], top[3] + 1)
    IN IF v # 0
       THEN Place(b, [st EXCEPT ![Len(st)] = <<top[1], top[2], v>>], top[1], top[2], v, n)
       ELSE ReturnedFalse(b, SubSeq(st, 1, Len(st) - 1), n)

Yield(o) ==
    /\ bt_pc' = o.pc
    /\ work_board' = o.board
    /\ stack' = o.stack
    /\ step_count' = o.step_count
    /\ bt_events' = Append(bt_events, o.event)

BtInit ==
    /\ puzzle \in BtPuzzles
    /\ pop_size = 150 /\ elite_frac = <<1, 10>> /\ max_iters = 1000
    /\ belief = BeliefSpaceInit(SizeN(puzzle))
    /\ SolverIdle
    /\ probe = <<>> /\ probe_fit = 0 /\ probe_cells = {}
    /\ draw = -1 /\ target_row = -1
    /\ ControllerIdle
    /\ bt_pc = "created" /\ work_board = clone_board(puzzle) /\ stack = <<>>
    /\ step_count = 0 /\ bt_events = <<>>
    /\ HeapIdle

bt_frame == <<solver_vars, probe_vars, ctl_vars, heap_vars>>

(* Line 42.                                                                *)
BtStart ==
    /\ bt_pc = "created"
    /\ Yield(Outcome("start", work_board, stack, step_count, StartEvent))
    /\ UNCHANGED bt_frame

(* The generator is resumed after start or update: recurse is called.      *)
BtRecurse ==
    /\ bt_pc \in {"start", "update"}
    /\ Yield(Recurse(work_board, stack, step_count))
    /\ UNCHANGED bt_frame

(* The generator is resumed after backtrack.                               *)
BtNextValue ==
    /\ bt_pc = "backtrack"
    /\ Yield(NextValue(work_board, stack, step_count))
    /\ UNCHANGED bt_frame

(* The generator is resumed after done or fail and returns.                *)
BtReturn ==
    /\ bt_pc \in {"done", "fail"}
    /\ bt_pc' = "returned"
    /\ UNCHANGED <<work_board, stack, step_count, bt_events, bt_frame>>

BtNext == BtStart \/ BtRecurse \/ BtNextValue \/ BtReturn

BtSpec == BtInit /\ [][BtNext]_vars

BtFairSpec == BtSpec /\ WF_vars(BtNext)

----------------------------------------------------------------------------
(* solve_gen over list objects.  A board is a list of row lists; heap[i]   *)
(* is the list object with id i: a row (its values) or a board (the ids of *)
(* its rows).  refs holds the locals of solve_gen as ids, so that two      *)
(* names for one object, and one row held by two boards, are visible.      *)
(* Fitness, the belief space and the random choices are those of the       *)
(* solver above, applied to the content an id stands for.                  *)

Deref(h, b) == [r \in 1..Len(h[b]) |-> h[h[b][r]]]

RowIds(h, b) == {h[b][r] : r \in 1..Len(h[b])}

(* A new board object with new row objects of the given content.           *)
NewBoard(h, content) ==
    [heap |-> Append(h \o content, [r \in 1..Len(content) |-> Len(h) + r]),
     id |-> Len(h) + Len(content) + 1]

(* sudoku_logic.py lines 16-18, [row[:] for row in board].                 *)
clone_board_ref(h, b) == NewBoard(h, Deref(h, b))

(* A variant of row[:] that hands back the row itself.                     *)
RowAlias(h, row) == [heap |-> h, id |-> row]

(* row[:] : a new row object with the values of row.                       *)
RowCopy(h, row) == [heap |-> Append(h, h[row]), id |-> Len(h) + 1]

(* a[c1], a[c2] = a[c2], a[c1] on the row object of board b at row r.      *)
SwapCells(h, b, r, c1, c2) ==
    LET row == h[b][r + 1]
    IN [h EXCEPT ![row] = [@ EXCEPT ![c1 + 1] = h[row][c2 + 1],
                                    ![c2 + 1] = h[row][c1 + 1]]]

(* fits[id(p)] = f.                                                        *)
SetFit(f, b, v) == [x \in (DOMAIN f) \cup {b} |-> IF x = b THEN v ELSE f[x]]

(* Line 147: random_ind clones the puzzle and fills the clone, once for    *)
(* each of the given contents.                                             *)
RECURSIVE AllocBoards(_, _, _)
AllocBoards(h, contents, k) ==
    IF k = 0 THEN [heap |-> h, ids |-> <<>>]
    ELSE LET before == AllocBoards(h, contents, k - 1)
             nb == NewBoard(before.heap, contents[k])
         IN [heap |-> nb.heap, ids |-> Append(before.ids, nb.id)]

(* Line 200: the clones of the boards ids[1..k].                           *)
RECURSIVE CloneBoards(_, _, _)
CloneBoards(h, ids, k) ==
    IF k = 0 THEN [heap |-> h, ids |-> <<>>]
    ELSE LET before == CloneBoards(h, ids, k - 1)
             nb == clone_board_ref(before.heap, ids[k])
         IN [heap |-> nb.heap, ids |-> Append(before.ids, nb.id)]

(* Line 201.                                                               *)
RECURSIVE SetFits(_, _, _)
SetFits(f, ids, v) ==
    IF ids = <<>> THEN f ELSE SetFits(SetFit(f, ids[1], v), Tail(ids), v)

(* Lines 209-210 for rows 0..n-1: child[r] = p2[r][:] for the rows chosen. *)
RECURSIVE CopyRowsFrom(_, _, _, _, _)
CopyRowsFrom(h, c, p2, from_p2, n) ==
    IF n = 0 THEN h
    ELSE LET before == CopyRowsFrom(h, c, p2, from_p2, n - 1)
         IN IF (n - 1) \in from_p2
            THEN LET row == RowCopy(before, before[p2][n])
                 IN [row.heap EXCEPT ![c] = [@ EXCEPT ![n] = row.id]]
            ELSE before

HeapIdleRefs(pz) ==
    [pc |-> "created", puzzle |-> pz, pop |-> <<>>, fits |-> <<>>, best |-> 0,
     best_fit |-> Inf, it |-> 0, num_elite |-> 0, bad_cells |-> {}, polished |-> 0,
     swap |-> <<>>, elites |-> <<>>, new_pop |-> <<>>, child |-> 0, emitted |-> <<>>]

HeapPuzzles == {PzTwoRows}

HeapPopSize == 3

(* The caller's board is an object of its own; __init__ keeps it (line 69).*)
HeapInit ==
    /\ puzzle \in HeapPuzzles
    /\ pop_size = HeapPopSize /\ elite_frac = <<1, 10>> /\ max_iters \in 1..MaxIters
    /\ belief = BeliefSpaceInit(SizeN(puzzle))
    /\ SolverIdle
    /\ probe = <<>> /\ probe_fit = 0 /\ probe_cells = {}
    /\ draw = -1 /\ target_row = -1
    /\ ControllerIdle
    /\ BacktrackingIdle
    /\ LET nb == NewBoard(<<>>, puzzle)
       IN heap = nb.heap /\ refs = HeapIdleRefs(nb.id)

heap_frame == <<puzzle, pop_size, elite_frac, max_iters, pc, pop, fits, best,
                best_fit, it, num_elite, bad_cells, polished, swap, new_pop,
                new_fits, child, events, zero_made, probe_vars, ctl_vars, bt_vars>>

HFitness(h, b) == fitness(puzzle, Deref(h, b))

(* Lines 147-153.                                                          *)
HeapStart ==
    /\ refs.pc = "created"
    /\ \E p \in [1..pop_size -> random_ind(puzzle)] :
          LET made == AllocBoards(heap, p, pop_size)
              f == [b \in {made.ids[i] : i \in 1..pop_size} |-> HFitness(made.heap, b)]
              bi == FirstMinIndex([i \in 1..pop_size |-> f[made.ids[i]]])
              shown == clone_board_ref(made.heap, made.ids[bi])
          IN /\ heap' = shown.heap
             /\ refs' = [refs EXCEPT !.pc = "init", !.pop = made.ids, !.fits = f,
                                     !.best = made.ids[bi], !.best_fit = f[made.ids[bi]],
                                     !.emitted = Append(@, shown.id)]
    /\ UNCHANGED <<heap_frame, belief>>

(* pop and new_pop name one list object from line 226 to line 203.         *)
HeapPopIsNewPop ==
    \/ refs.pc = "loop"
    \/ refs.it >= 2 /\ refs.pc \in {"iter", "swap_try", "swap_reset"}

(* Lines 155-174.                                                          *)
HeapIterBegin ==
    /\ refs.pc \in {"init", "loop"}
    /\ LoopContinues(refs.it, max_iters)
    /\ LET keys == [k \in 1..Len(refs.pop) |-> refs.fits[refs.pop[k]]]
           order == SortOrder(keys)
           spop == [k \in 1..Len(refs.pop) |-> refs.pop[order[k]]]
           ne == NumElite(pop_size, elite_frac)
           elites == Prefix(spop, ne)
           curr_best == spop[1]
           curr_fit == refs.fits[curr_best]
           better == Improves(curr_fit, refs.best_fit)
           kept == IF better THEN clone_board_ref(heap, curr_best)
                   ELSE [heap |-> heap, id |-> refs.best]
           shown == clone_board_ref(kept.heap, curr_best)
       IN /\ belief' = BeliefUpdate(belief, puzzle,
                                    [k \in 1..Len(elites) |-> Deref(heap, elites[k])],
                                    [k \in 1..Len(elites) |-> refs.fits[elites[k]]])
          /\ heap' = shown.heap
          /\ refs' = [refs EXCEPT !.pc = "iter", !.it = @ + 1, !.pop = spop,
                                  !.new_pop = IF HeapPopIsNewPop THEN spop ELSE @,
                                  !.num_elite = ne, !.elites = elites,
                                  !.bad_cells = get_conflicted_cells(puzzle, Deref(heap, curr_best)),
                                  !.best = kept.id,
                                  !.best_fit = IF better THEN curr_fit ELSE @,
                                  !.emitted = Append(@, shown.id)]
    /\ UNCHANGED heap_frame

(* Lines 200-203 on heap h with population p and cache f.                  *)
HeapCloneElites(h, p, f, rf) ==
    LET made == CloneBoards(h, p, Len(Prefix(p, rf.num_elite)))
    IN /\ heap' = made.heap
       /\ refs' = [rf EXCEPT !.pc = "breed", !.pop = p,
                             !.fits = SetFits(f, made.ids, f[p[1]]),
                             !.elites = made.ids, !.new_pop = made.ids]

(* Lines 177-182 when no swap is tried.                                    *)
HeapPolishSkip ==
    /\ refs.pc = "iter"
    /\ \/ /\ refs.bad_cells = {}
          /\ HeapCloneElites(heap, refs.pop, refs.fits, refs)
       \/ \E rc \in refs.bad_cells :
             /\ PolishCols(puzzle, rc[1], rc[2]) = {}
             /\ LET made == clone_board_ref(heap, refs.pop[1])
                IN HeapCloneElites(made.heap, refs.pop, refs.fits,
                                   [refs EXCEPT !.polished = made.id])
    /\ UNCHANGED <<heap_frame, belief>>

(* Lines 177-184: polished is a clone of pop[0]; the swap_try event        *)
(* carries values only.                                                    *)
HeapSwapTry ==
    /\ refs.pc = "iter"
    /\ \E rc \in refs.bad_cells : \E c2 \in PolishCols(puzzle, rc[1], rc[2]) :
          LET made == clone_board_ref(heap, refs.pop[1])
          IN /\ heap' = made.heap
             /\ refs' = [refs EXCEPT !.pc = "swap_try", !.polished = made.id,
                                     !.swap = <<rc[1], rc[2], c2>>]
    /\ UNCHANGED <<heap_frame, belief>>

(* Lines 185-186: the swap is made in the row object of polished.          *)
HeapSwapReset ==
    /\ refs.pc = "swap_try"
    /\ heap' = SwapCells(heap, refs.polished, refs.swap[1], refs.swap[2], refs.swap[3])
    /\ refs' = [refs EXCEPT !.pc = "swap_reset"]
    /\ UNCHANGED <<heap_frame, belief>>

(* Lines 187-203.                                                          *)
HeapPolishEvaluate ==
    /\ refs.pc = "swap_reset"
    /\ LET new_f == HFitness(heap, refs.polished)
           start_f == refs.fits[refs.pop[1]]
           accept == Improves(new_f, start_f)
           better == accept /\ Improves(new_f, refs.best_fit)
           pop1 == IF accept THEN [refs.pop EXCEPT ![1] = refs.polished] ELSE refs.pop
           fits1 == IF accept THEN SetFit(refs.fits, refs.polished, new_f) ELSE refs.fits
           kept == IF better THEN clone_board_ref(heap, refs.polished)
                   ELSE [heap |-> heap, id |-> refs.best]
           rf == [refs EXCEPT !.best = kept.id,
                              !.best_fit = IF better THEN new_f ELSE @]
       IN IF better /\ SolvedFitness(new_f)
          THEN /\ heap' = kept.heap
               /\ refs' = [rf EXCEPT !.pc = "done", !.pop = pop1, !.fits = fits1,
                                     !.new_pop = IF HeapPopIsNewPop THEN pop1 ELSE @,
                                     !.emitted = Append(@, kept.id)]
          ELSE HeapCloneElites(kept.heap, pop1, fits1, rf)
    /\ UNCHANGED <<heap_frame, belief>>

(* Lines 204-210: child is a list of copies of the rows of p1 or p2, with  *)
(* some rows replaced by copies of p2's.                                   *)
HeapCrossover ==
    /\ refs.pc = "breed"
    /\ Len(refs.new_pop) < pop_size
    /\ LET half == Prefix(refs.pop, pop_size \div 2)
       IN \E i1 \in 1..Len(refs.elites), i2 \in 1..Len(half), use_p1 \in BOOLEAN,
             from_p2 \in SUBSET Idx(puzzle) :
             LET p1 == refs.elites[i1]
                 p2 == half[i2]
                 made == clone_board_ref(heap, IF use_p1 THEN p1 ELSE p2)
             IN /\ heap' = CopyRowsFrom(made.heap, made.id, p2, from_p2, SizeN(puzzle))
                /\ refs' = [refs EXCEPT !.pc = "child", !.child = made.id]
    /\ UNCHANGED <<heap_frame, belief>>

(* Lines 213-221: the heaps the mutation step can leave behind.            *)
HeapMutations(h, c) ==
    {h} \cup
    UNION {IF Cardinality(MutableCols(puzzle, r)) >= 2
           THEN {SwapCells(h, c, r, cc[1], cc[2]) :
                    cc \in {cc \in MutableCols(puzzle, r) \X MutableCols(puzzle, r) :
                               cc[1] # cc[2]}}
           ELSE {h} : r \in TargetRows(belief)}

(* Lines 213-224.                                                          *)
HeapMutate ==
    /\ refs.pc = "child"
    /\ \E h \in HeapMutations(heap, refs.child) :
          /\ heap' = h
          /\ refs' = [refs EXCEPT !.pc = "breed",
                                  !.new_pop = Append(@, refs.child),
                                  !.fits = SetFit(@, refs.child, HFitness(h, refs.child))]
    /\ UNCHANGED <<heap_frame, belief>>

(* Lines 226-230: done yields best itself.                                 *)
HeapEndGeneration ==
    /\ refs.pc = "breed"
    /\ Len(refs.new_pop) >= pop_size
    /\ refs' = [refs EXCEPT !.pop = refs.new_pop,
                            !.pc = IF SolvedFitness(refs.best_fit) THEN "done" ELSE "loop",
                            !.emitted = IF SolvedFitness(refs.best_fit)
                                        THEN Append(@, refs.best) ELSE @]
    /\ UNCHANGED <<heap, heap_frame, belief>>

(* Lines 232-233: fail yields best itself.                                 *)
HeapFail ==
    /\ refs.pc \in {"init", "loop"}
    /\ ~LoopContinues(refs.it, max_iters)
    /\ refs' = [refs EXCEPT !.pc = "fail", !.emitted = Append(@, refs.best)]
    /\ UNCHANGED <<heap, heap_frame, belief>>

HeapReturn ==
    /\ refs.pc \in {"done", "fail"}
    /\ refs' = [refs EXCEPT !.pc = "returned"]
    /\ UNCHANGED <<heap, heap_frame, belief>>

HeapNext ==
    \/ HeapStart
    \/ HeapIterBegin
    \/ HeapPolishSkip
    \/ HeapSwapTry
    \/ HeapSwapReset
    \/ HeapPolishEvaluate
    \/ HeapCrossover
    \/ HeapMutate
    \/ HeapEndGeneration
    \/ HeapFail
    \/ HeapReturn

HeapSpec == HeapInit /\ [][HeapNext]_vars

----------------------------------------------------------------------------
(* Vocabulary of the properties.                                           *)

Last(seq) == seq[Len(seq)]

EventIdx(tags) == {i \in 1..Len(events) : events[i].tag \in tags}

BoardTags == {"init", "iter", "done", "fail"}

(* Row r of the puzzle repeats no clue.                                    *)
RowConsistent(pz) ==
    \A r \in Idx(pz) : \A c1, c2 \in Idx(pz) :
        (c1 # c2 /\ fixed(pz, r, c1)) => Cell(pz, r, c1) # Cell(pz, r, c2)

(* Every value of 1..N occurs exactly once in the row.                     *)
IsPermutationRow(row, n) ==
    /\ Len(row) = n
    /\ \A v \in 1..n : Cardinality({c \in 1..n : row[c] = v}) = 1

KeepsClues(pz, b) ==
    \A r \in Idx(pz) : \A c \in Idx(pz) : fixed(pz, r, c) => Cell(b, r, c) = Cell(pz, r, c)

RowComplete(pz, b) ==
    /\ Len(b) = SizeN(pz)
    /\ \A r \in 1..SizeN(pz) : IsPermutationRow(b[r], SizeN(pz))
    /\ KeepsClues(pz, b)

(* Every board the run holds or has handed out.                            *)
KnownBoards ==
    {pop[i] : i \in 1..Len(pop)} \cup {new_pop[i] : i \in 1..Len(new_pop)}
    \cup ({polished, child, best, belief.global_best} \ {<<>>})
    \cup {events[i].board : i \in EventIdx(BoardTags)}

NoRepeat(vals) == \A i, j \in 1..Len(vals) : i # j => vals[i] # vals[j]

IsSolution(pz, b) ==
    /\ \A r \in 1..SizeN(pz) : NoRepeat(b[r])
    /\ \A c \in Idx(pz) : NoRepeat(ColumnVals(pz, b, c))
    /\ \A o \in BlockOrigins(pz) : NoRepeat(BlockVals(pz, b, o[1], o[2]))
    /\ \A r \in 1..SizeN(pz) : \A c \in 1..SizeN(pz) : b[r][c] \in 1..SizeN(pz)
    /\ KeepsClues(pz, b)

(* An upper bound on the steps a run still takes: one generation is the   *)
(* iter step, at most three polish steps, two steps per child and the end  *)
(* of the generation; after the loop come the terminal event and the       *)
(* return.                                                                 *)
GenerationSteps == 2 * pop_size + 5

StepsInGeneration ==
    CASE pc = "iter" -> 2 * pop_size + 4
      [] pc = "swap_try" -> 2 * pop_size + 3
      [] pc = "swap_reset" -> 2 * pop_size + 2
      [] pc = "breed" -> 2 * (pop_size - Len(new_pop)) + 1
      [] pc = "child" -> 2 * (pop_size - Len(new_pop))
      [] OTHER -> 0

StepsLeft ==
    CASE pc = "created" -> max_iters * GenerationSteps + 3
      [] pc \in {"done", "fail"} -> 1
      [] pc \in {"returned", "raised"} -> 0
      [] OTHER -> (max_iters - it) * GenerationSteps + StepsInGeneration + 2

----------------------------------------------------------------------------
(* C1: for a puzzle whose clues repeat no value within a row, every board  *)
(* of the run (population, new population, polished clone, child before    *)
(* and after mutation, best, and every board carried by an event) has      *)
(* each row a permutation of 1..N and keeps every clue.                    *)
C1_RowCompleteness ==
    RowConsistent(puzzle) => \A b \in KnownBoards : RowComplete(puzzle, b)

(* A row-consistent puzzle, after a polish swap, with a full new            *)
(* population whose last child is a board the old population did not have. *)
C1_Witness ==
    /\ RowConsistent(puzzle)
    /\ pc = "breed"
    /\ Len(new_pop) = pop_size
    /\ polished # <<>>
    /\ child # <<>>
    /\ child \notin {pop[i] : i \in 1..Len(pop)}

----------------------------------------------------------------------------
DoneEventsSound ==
    \A i \in EventIdx({"done"}) :
        /\ events[i].fitness = 0
        /\ events[i].cells = {}
        /\ IsSolution(puzzle, events[i].board)

(* C2 as stated: every done event carries fitness 0, no conflict cell and  *)
(* a board without a repeated value in any row, column or block that       *)
(* keeps every clue.                                                       *)
C2_DoneIsSolution == DoneEventsSound

(* C2, amended: the same, for puzzles whose clues repeat no value within a *)
(* row.                                                                    *)
C2_DoneIsSolutionOfRowConsistent == RowConsistent(puzzle) => DoneEventsSound

(* A done event at the end of a generation, in a run that tried a swap.    *)
C2_Witness ==
    /\ RowConsistent(puzzle)
    /\ pc = "done"
    /\ Last(events).tag = "done"
    /\ events[Len(events) - 1].tag = "iter"
    /\ EventIdx({"swap_reset"}) # {}

----------------------------------------------------------------------------
(* C3: the fitness carried by successive init, iter, done and fail events  *)
(* never increases.                                                        *)
C3_FitnessNeverIncreases ==
    \A i, j \in EventIdx(BoardTags) : i < j => events[j].fitness <= events[i].fitness

(* A finished run whose reported fitness went down twice.                  *)
C3_Witness ==
    /\ pc = "returned"
    /\ \E i, j, k \in EventIdx(BoardTags) :
          /\ i < j /\ j < k
          /\ events[j].fitness < events[i].fitness
          /\ events[k].fitness < events[j].fitness

----------------------------------------------------------------------------
(* C4 as stated, for runs with at least one generation: a fail event is    *)
(* emitted only when no individual with true fitness 0 was ever created    *)
(* (in the initial population, by the polish swap, or as a child of any    *)
(* generation, the last one included); otherwise the run ends with done.   *)
C4_ZeroFitnessEndsWithDone ==
    (max_iters >= 1 /\ EventIdx({"fail"}) # {}) => ~zero_made

----------------------------------------------------------------------------
(* C5: with max_iters = 0 the run emits init and then fail, nothing else;  *)
(* fail carries iteration 0 and the board and fitness of init.             *)
C5_ZeroIterations ==
    max_iters = 0 =>
        /\ Len(events) <= 2
        /\ \A i \in 1..Len(events) : events[i].tag = (IF i = 1 THEN "init" ELSE "fail")
        /\ Len(events) = 2 =>
              /\ events[2].iteration = 0
              /\ events[2].board = events[1].board
              /\ events[2].fitness = events[1].fitness
        /\ pc = "returned" => Len(events) = 2

(* A finished run with max_iters = 0 on a population without a solution.   *)
C5_Witness ==
    /\ max_iters = 0
    /\ pc = "returned"
    /\ events[1].fitness > 0
    /\ \E i, j \in 1..Len(pop) : pop[i] # pop[j]

----------------------------------------------------------------------------
(* Two clues hold the same value in one column.                            *)
ClashInColumn(pz) ==
    \E c \in Idx(pz) : \E r1, r2 \in Idx(pz) :
        /\ r1 # r2
        /\ fixed(pz, r1, c)
        /\ Cell(pz, r1, c) = Cell(pz, r2, c)

ClashCase ==
    /\ SizeN(puzzle) = 4
    /\ ClashInColumn(puzzle)
    /\ RowConsistent(puzzle)
    /\ pop_size >= 2

ClashRunSafe ==
    /\ EventIdx({"done"}) = {}
    /\ Cardinality(EventIdx({"iter"})) <= max_iters
    /\ pc \in {"fail", "returned"} => EventIdx({"fail"}) # {}
    /\ EventIdx({"fail"}) # {} =>
          /\ EventIdx({"fail"}) = {Len(events)}
          /\ Cardinality(EventIdx({"iter"})) = max_iters
          /\ Last(events).iteration = max_iters
          /\ Last(events).fitness # 0

(* C6: on a 4x4 puzzle with two equal clues in one column (rows            *)
(* consistent) and pop_size >= 2, every step of a run brings its end       *)
(* nearer, the run never emits done and never more than max_iters iter     *)
(* events, and it ends with one fail event, after exactly max_iters iter   *)
(* events, whose iteration is max_iters and whose fitness is not 0.        *)
C6_ClashingCluesEndInFail ==
    [][ClashCase => (ClashRunSafe' /\ StepsLeft' \in Nat /\ StepsLeft' < StepsLeft)]_vars

(* Such a run, finished after two iterations and a polish swap.            *)
C6_Witness ==
    /\ ClashCase
    /\ pc = "returned"
    /\ max_iters >= 2
    /\ EventIdx({"swap_reset"}) # {}
    /\ Last(events).tag = "fail"

----------------------------------------------------------------------------
EmptyCells(pz) == {rc \in Idx(pz) \X Idx(pz) : ~fixed(pz, rc[1], rc[2])}

(* A 4x4 puzzle made from a valid solution by removing exactly one cell.   *)
OneCellRemoved(pz) ==
    /\ SizeN(pz) = 4
    /\ Cardinality(EmptyCells(pz)) = 1
    /\ \E rc \in EmptyCells(pz) : \E v \in 1..4 :
          IsSolution(pz, [pz EXCEPT ![rc[1] + 1][rc[2] + 1] = v])

ScenarioCase ==
    /\ OneCellRemoved(puzzle)
    /\ pop_size = 10
    /\ elite_frac = <<1, 5>>
    /\ max_iters = 50

ScenarioRunSafe ==
    /\ EventIdx({"fail"}) = {}
    /\ \A i \in EventIdx({"done"}) :
          events[i].fitness = 0 /\ events[i].iteration <= 50
    /\ pc \in {"done", "returned"} => Last(events).tag = "done"
    /\ pc = "returned" => Cardinality(EventIdx({"done"})) = 1
    /\ pc # "loop"

(* C7: on a one-cell 4x4 puzzle with pop_size=10, elite_frac=0.2 and       *)
(* max_iters=50 every step of a run brings its end nearer, the run never   *)
(* emits fail, and it ends with a done event of fitness 0 at an iteration  *)
(* <= 50; the loop is not entered a second time.                           *)
C7_OneCellPuzzleIsSolved ==
    [][ScenarioCase => (ScenarioRunSafe' /\ StepsLeft' \in Nat /\ StepsLeft' < StepsLeft)]_vars

(* The scenario, suspended at its done event with a full population.       *)
C7_Witness ==
    /\ ScenarioCase
    /\ pc = "done"
    /\ Len(pop) = 10
    /\ Last(events).tag = "done"

----------------------------------------------------------------------------
(* Two clues hold the same value in one column or in one block.            *)
CluesCollide(pz) ==
    \/ ClashInColumn(pz)
    \/ \E o \in BlockOrigins(pz) :
          LET cells == BlockCellSeq(pz, o[1], o[2])
          IN \E j, k \in 1..Len(cells) :
                /\ j # k
                /\ fixed(pz, cells[j][1], cells[j][2])
                /\ Cell(pz, cells[j][1], cells[j][2]) = Cell(pz, cells[k][1], cells[k][2])

ProbedRowComplete == probe # <<>> /\ RowComplete(puzzle, probe)

(* C8 as stated: for every row-complete board, on colliding clues too,     *)
(* fitness is 0 if and only if get_conflicted_cells is empty.              *)
C8_ZeroFitnessIffNoConflictCells ==
    ProbedRowComplete => ((probe_fit = 0) <=> (probe_cells = {}))

(* C8, amended: for every row-complete board, fitness 0 implies that       *)
(* get_conflicted_cells is empty; the converse holds when no two clues     *)
(* hold the same value in one column or block.                             *)
C8_ZeroFitnessIffNoConflictCellsWithoutClueCollision ==
    ProbedRowComplete =>
        /\ (probe_fit = 0) => (probe_cells = {})
        /\ ~CluesCollide(puzzle) => ((probe_cells = {}) => (probe_fit = 0))

(* A board on clues that do not collide whose only conflicts are in        *)
(* columns.                                                                *)
C8_Witness ==
    /\ ProbedRowComplete
    /\ ~CluesCollide(puzzle)
    /\ probe_fit > 0
    /\ ColConflicts(puzzle, probe) # {}
    /\ BlockConflicts(puzzle, probe) = {}

----------------------------------------------------------------------------
Occurrences(vals, v) == Cardinality({k \in 1..Len(vals) : vals[k] = v})

(* The columns and the blocks of the probed board.                         *)
ProbeGroups ==
    [k \in 1..SizeN(puzzle) |-> ColumnVals(puzzle, probe, k - 1)] \o
    [k \in 1..Len(BlockOriginSeq(puzzle)) |->
        BlockVals(puzzle, probe, BlockOriginSeq(puzzle)[k][1], BlockOriginSeq(puzzle)[k][2])]

(* Sum over the distinct values occurring k > 1 times in vals of k - less. *)
RepeatSum(vals, less) ==
    SumSeq([v \in 1..SizeN(puzzle) |->
               IF Occurrences(vals, v) > 1 THEN Occurrences(vals, v) - less ELSE 0])

GroupRepeatSum(less) ==
    SumSeq([g \in 1..Len(ProbeGroups) |-> RepeatSum(ProbeGroups[g], less)])

NoGroupRepeats == \A g \in 1..Len(ProbeGroups) : NoRepeat(ProbeGroups[g])

(* C9 as stated: fitness is the sum, over every column and block, of k for *)
(* each distinct value occurring k > 1 times; it is 0 exactly when no      *)
(* column and no block repeats a value.                                    *)
C9_FitnessCountsAllOccurrences ==
    probe # <<>> =>
        /\ probe_fit = GroupRepeatSum(0)
        /\ (probe_fit = 0) <=> NoGroupRepeats

(* C9, amended: fitness is the sum, over every column and block, of k - 1  *)
(* for each distinct value occurring k > 1 times; it is 0 exactly when no  *)
(* column and no block repeats a value.                                    *)
C9_FitnessCountsRepeatedOccurrences ==
    probe # <<>> =>
        /\ probe_fit = GroupRepeatSum(1)
        /\ (probe_fit = 0) <=> NoGroupRepeats

(* A board with a value three times in one column.                         *)
C9_Witness ==
    /\ probe # <<>>
    /\ \E g \in 1..SizeN(puzzle) : \E v \in 1..SizeN(puzzle) :
          Occurrences(ProbeGroups[g], v) >= 3

----------------------------------------------------------------------------
IterEvents == EventIdx({"iter"})

EventShape ==
    /\ Len(events) >= 1 =>
          /\ events[1].tag = "init"
          /\ events[1].iteration = 0
          /\ events[1].cells = {}
    /\ \A i \in 2..Len(events) :
          LET e == events[i]
              prev == events[i - 1]
          IN /\ e.tag # "init"
             /\ prev.tag \notin {"done", "fail"}
             /\ e.tag = "iter" =>
                   /\ prev.tag \in {"init", "iter", "swap_reset"}
                   /\ e.iteration = Cardinality({j \in IterEvents : j <= i})
                   /\ e.iteration <= max_iters
             /\ e.tag = "swap_try" => prev.tag = "iter"
             /\ e.tag = "swap_reset" =>
                   /\ prev.tag = "swap_try"
                   /\ e.row = prev.row /\ e.col1 = prev.col1 /\ e.col2 = prev.col2
             /\ e.tag \in {"done", "fail"} =>
                   /\ prev.tag \in {"init", "iter", "swap_reset"}
                   /\ e.iteration <= max_iters
    /\ (Len(events) >= 1 /\ Last(events).tag = "swap_try") <=> (pc = "swap_try")
    /\ pc \in {"done", "fail", "returned"} <=>
          (Len(events) >= 1 /\ Last(events).tag \in {"done", "fail"})

(* C10: every step of a run brings its end nearer, and the events emitted  *)
(* so far are: init first (iteration 0, no conflict cell) and only there;  *)
(* iter events numbered 1, 2, 3, ... up to at most max_iters, each after   *)
(* init, iter or swap_reset; a swap_try only right after an iter and, once *)
(* the run goes on, right before a swap_reset naming the same row and      *)
(* columns; done or fail only as the last event, which a finished run has. *)
C10_EventSequenceShape ==
    [][EventShape' /\ StepsLeft' \in Nat /\ StepsLeft' < StepsLeft]_vars

(* A finished run with an iteration that tried a swap and one that did not. *)
C10_Witness ==
    /\ pc = "returned"
    /\ EventIdx({"swap_try"}) # {}
    /\ \E i \in IterEvents : (i + 1) \in IterEvents

----------------------------------------------------------------------------
MalformedCase ==
    \/ SizeN(puzzle) \notin {4, 6, 9}
    \/ pop_size < 2
    \/ EmptyCells(puzzle) = {}

(* C11 as stated: with N outside {4,6,9}, pop_size below 2 or a puzzle     *)
(* without an empty cell, the run raises before any iteration: it emits no *)
(* iter event and reaches neither done nor fail.                           *)
C11_MalformedConfigurationFailsFast ==
    MalformedCase =>
        /\ EventIdx({"iter", "done", "fail"}) = {}
        /\ pc \notin {"iter", "done", "fail", "returned"}

----------------------------------------------------------------------------
(* C12 as stated: once stop_solving has been called while a solve's thread *)
(* is alive, that thread forwards no further event to the UI thread and    *)
(* pulls at most one more event from its generator, whatever the UI thread *)
(* calls next.                                                             *)
C12_StopEndsForwarding ==
    \A i \in 1..Len(runs) :
        /\ runs[i].forwarded_after = 0
        /\ runs[i].pulled_after <= 1

----------------------------------------------------------------------------
(* C13: when an iter event is emitted its board and fitness are the        *)
(* best-so-far board and fitness of the run; for every iter event the      *)
(* fitness it carries is the recomputed fitness of the board it carries,   *)
(* and its cells are get_conflicted_cells of that board.                   *)
C13_IterCarriesBestSoFar ==
    /\ pc = "iter" =>
          /\ Last(events).tag = "iter"
          /\ Last(events).board = best
          /\ Last(events).fitness = best_fit
    /\ \A i \in IterEvents :
          /\ fitness(puzzle, events[i].board) = events[i].fitness
          /\ events[i].cells = get_conflicted_cells(puzzle, events[i].board)

(* The second iter event, with a better board than init had and with       *)
(* conflict cells left.                                                    *)
C13_Witness ==
    /\ pc = "iter"
    /\ it = 2
    /\ Last(events).fitness < events[1].fitness
    /\ Last(events).cells # {}
    /\ Last(events).board # events[1].board

----------------------------------------------------------------------------
Ascending(keys) == \A i, j \in 1..Len(keys) : i < j => keys[i] <= keys[j]

(* In an iteration num_elite has the value n, the population is sorted     *)
(* ascending by cached fitness, and once the elites are taken they are     *)
(* copies of its first n individuals (all of them when it has fewer).      *)
ElitesAre(n) ==
    /\ pc \in {"iter", "swap_try", "swap_reset", "breed", "child"} =>
          /\ num_elite = n
          /\ Ascending(fits)
    /\ pc \in {"breed", "child"} =>
          /\ Len(new_pop) >= Len(Prefix(pop, n))
          /\ \A k \in 1..Len(Prefix(pop, n)) : new_pop[k] = pop[k]

(* C14 as stated: in every iteration the number of elites is               *)
(* max(2, round(pop_size * elite_frac)), and the elites are the first      *)
(* that many individuals of the population sorted ascending by cached      *)
(* fitness.                                                                *)
C14_NumEliteRounds ==
    ElitesAre(Max2(2, RoundHalfEven(pop_size * elite_frac[1], elite_frac[2])))

(* C14, amended: the number of elites is max(2, int(pop_size *             *)
(* elite_frac)), the floating-point product truncated toward zero: the     *)
(* truncated exact product, or one less where the exact product is an      *)
(* integer that the float product falls short of; and the elites are the   *)
(* first that many individuals of the population sorted ascending by       *)
(* cached fitness.                                                         *)
C14_NumEliteTruncates ==
    LET prod == pop_size * elite_frac[1]
        exact == prod \div elite_frac[2]
    IN IF prod % elite_frac[2] # 0
       THEN ElitesAre(Max2(2, exact))
       ELSE ElitesAre(Max2(2, exact)) \/ ElitesAre(Max2(2, exact - 1))

(* pop_size=15 with elite_frac=0.25 takes 3 elites.                        *)
C14_Witness ==
    /\ pop_size = 15
    /\ elite_frac = <<1, 4>>
    /\ pc = "breed"
    /\ num_elite = 3
    /\ Len(new_pop) = 3

----------------------------------------------------------------------------
(* The step that follows swap_reset: the polished clone is evaluated.      *)
PolishOutcome ==
    pc = "swap_reset" =>
        LET new_f == fitness(puzzle, polished)
        IN IF new_f < fits[1]
           THEN /\ pop' = [pop EXCEPT ![1] = polished]
                /\ fits' = [fits EXCEPT ![1] = new_f]
           ELSE /\ pop' = pop
                /\ fits' = fits
                /\ best' = best
                /\ best_fit' = best_fit
                /\ events' = events

(* The steps that emit swap_try and swap_reset touch neither the           *)
(* population nor the best-so-far.                                         *)
SwapEventsKeepPopulation ==
    pc \in {"iter", "swap_try"} =>
        /\ pop' = pop
        /\ fits' = fits
        /\ best' = best
        /\ best_fit' = best_fit

(* C15: the polished clone replaces slot 0, with its recomputed fitness as *)
(* cached fitness, if and only if that fitness is strictly lower than the  *)
(* cached fitness of slot 0; otherwise the population, its cached fitness  *)
(* values, the best-so-far board and fitness stay as they were, although   *)
(* swap_try and swap_reset were emitted.                                   *)
C15_PolishAcceptedOnStrictImprovement ==
    [][PolishOutcome /\ SwapEventsKeepPopulation]_vars

(* A polished clone exactly as fit as slot 0 was evaluated and rejected.   *)
C15_Witness ==
    /\ pc = "breed"
    /\ Last(events).tag = "swap_reset"
    /\ polished # pop[1]
    /\ fitness(puzzle, polished) = fits[1]
    /\ best = pop[1]

----------------------------------------------------------------------------
(* C16: every swap_try event comes right after an iter event; its cell     *)
(* (row, col1) is one of that event's conflict cells, col2 differs from    *)
(* col1, neither cell is a clue, newVal1 is the value of that event's      *)
(* board at (row, col2) and newVal2 its value at (row, col1).  An iter     *)
(* event without conflict cells is not followed by a swap_try.             *)
C16_SwapTryRefersToIterBoard ==
    /\ \A i \in EventIdx({"swap_try"}) :
          LET t == events[i]
              e == events[i - 1]
          IN /\ e.tag = "iter"
             /\ <<t.row, t.col1>> \in e.cells
             /\ t.col2 # t.col1
             /\ ~fixed(puzzle, t.row, t.col1)
             /\ ~fixed(puzzle, t.row, t.col2)
             /\ t.newVal1 = Cell(e.board, t.row, t.col2)
             /\ t.newVal2 = Cell(e.board, t.row, t.col1)
    /\ \A i \in IterEvents :
          (events[i].cells = {} /\ i < Len(events)) => events[i + 1].tag # "swap_try"

(* A swap_try in the second iteration, and an earlier iteration that had   *)
(* conflict cells but tried no swap.                                       *)
C16_Witness ==
    /\ pc = "swap_try"
    /\ it = 2
    /\ events[Len(events) - 2].tag = "iter"
    /\ events[Len(events) - 2].cells # {}

----------------------------------------------------------------------------
(* The elites of the iteration, while the population is as update saw it.  *)
ElitesSeen == Prefix(pop, num_elite)

ElitesConflictFree ==
    \A i \in 1..Len(ElitesSeen) : get_conflicted_cells(puzzle, ElitesSeen[i]) = {}

(* C17: after update, conflict_matrix[r][c] is the number of the given     *)
(* elites whose conflicted cells include (r, c), whatever the belief space *)
(* held before, and row_conflict_scores[r] is the sum of row r of the      *)
(* matrix; after an update with elites without conflicted cells all scores *)
(* are zero and select_target_row can return every row 0..N-1.             *)
C17_BeliefSpaceCountsElites ==
    /\ \A r \in 1..SizeN(puzzle) :
          belief.row_conflict_scores[r] = SumSeq(belief.conflict_matrix[r])
    /\ pc \in {"iter", "swap_try", "swap_reset"} =>
          /\ \A r, c \in Idx(puzzle) :
                belief.conflict_matrix[r + 1][c + 1] =
                    Cardinality({i \in 1..Len(ElitesSeen) :
                        <<r, c>> \in get_conflicted_cells(puzzle, ElitesSeen[i])})
          /\ ElitesConflictFree =>
                /\ \A r \in 1..SizeN(puzzle) : belief.row_conflict_scores[r] = 0
                /\ TargetRows(belief) = Idx(puzzle)

(* The second update: a cell that was conflicted in the first iteration's  *)
(* best elite is counted for no elite now, while other cells are counted.  *)
C17_Witness ==
    /\ pc = "iter"
    /\ it = 2
    /\ \E i \in IterEvents : \E rc \in events[i].cells :
          /\ events[i].iteration = 1
          /\ belief.conflict_matrix[rc[1] + 1][rc[2] + 1] = 0
    /\ \E r, c \in 1..SizeN(puzzle) : belief.conflict_matrix[r][c] >= 1

----------------------------------------------------------------------------
(* One step never raises global_best_fit, and replaces global_best only    *)
(* together with a strictly lower global_best_fit, by the content of the   *)
(* first individual of the sorted population.                              *)
BeliefRatchet ==
    /\ belief'.global_best_fit <= belief.global_best_fit
    /\ belief'.global_best # belief.global_best =>
          /\ belief'.global_best_fit < belief.global_best_fit
          /\ belief'.global_best = pop'[1]

(* Right after an update the recomputed fitness of global_best is          *)
(* global_best_fit, which is the fitness of the iter event that follows.   *)
BeliefAfterUpdate ==
    pc = "iter" =>
        /\ fitness(puzzle, belief.global_best) = belief.global_best_fit
        /\ Last(events).tag = "iter"
        /\ Last(events).fitness = belief.global_best_fit

(* C18: global_best_fit never increases; global_best is replaced, by a     *)
(* copy of the first elite of lowest fitness, only when that fitness is    *)
(* strictly lower; after every update the true fitness of global_best is   *)
(* global_best_fit and is the fitness of the next iter event.              *)
C18_GlobalBestRatchet ==
    []BeliefAfterUpdate /\ [][BeliefRatchet]_vars

(* The second update lowered global_best_fit below the fitness of the      *)
(* first iter event and left it above zero.                                *)
C18_Witness ==
    /\ pc = "iter"
    /\ it = 2
    /\ belief.global_best_fit > 0
    /\ \E i \in IterEvents :
          events[i].iteration = 1 /\ belief.global_best_fit < events[i].fitness
    /\ belief.global_best = best

----------------------------------------------------------------------------
TotalScore == SumSeq(belief.row_conflict_scores)

(* C19: with a positive total, select_target_row returns the first row     *)
(* whose running sum of row_conflict_scores exceeds the draw, which lies   *)
(* in [0, total), so the row has a strictly positive score; only with      *)
(* total 0 can any row 0..N-1 be returned.  The rows the solver's mutation *)
(* step draws from are exactly these.                                      *)
C19_RouletteReturnsConflictedRow ==
    /\ target_row # -1 =>
          /\ target_row \in Idx(puzzle)
          /\ TotalScore > 0 =>
                /\ 0 <= draw /\ draw < 2 * TotalScore
                /\ belief.row_conflict_scores[target_row + 1] > 0
                /\ 2 * RunningSum(belief.row_conflict_scores, target_row) > draw
                /\ \A q \in 0..(target_row - 1) :
                      2 * RunningSum(belief.row_conflict_scores, q) <= draw
          /\ target_row \in TargetRows(belief)
    /\ TargetRows(belief) =
          IF TotalScore = 0 THEN Idx(puzzle)
          ELSE {r \in Idx(puzzle) : belief.row_conflict_scores[r + 1] > 0}

(* The draw 0 on scores that start with a row without conflicts.           *)
C19_Witness ==
    /\ draw = 0
    /\ belief.row_conflict_scores[1] = 0
    /\ target_row = 2
    /\ belief.row_conflict_scores[4] > 0

----------------------------------------------------------------------------
TrueFitnesses(p) == {fitness(puzzle, p[i]) : i \in 1..Len(p)}

MinTrueFitness(p) == CHOOSE m \in TrueFitnesses(p) : \A k \in TrueFitnesses(p) : m <= k

ElitismCase == pop_size >= 2 /\ elite_frac[1] <= elite_frac[2]

PopulationFull == pc # "created" => Len(pop) = pop_size

(* While the next population is built, its first members are the first     *)
(* members of the sorted population, slot 0 as polish left it.             *)
ElitesCarried ==
    pc \in {"breed", "child"} =>
        /\ num_elite <= pop_size
        /\ Len(new_pop) >= num_elite
        /\ \A i \in 1..num_elite : new_pop[i] = pop[i]

GenerationReplaced ==
    (pc = "breed" /\ pc' \in {"loop", "done"}) =>
        /\ Len(pop') = pop_size
        /\ \A i \in 1..num_elite : pop'[i] = pop[i]

PolishedTakesSlotZero ==
    (pc = "swap_reset" /\ Len(pop) > 0 /\ pop'[1] # pop[1]) =>
        /\ pop'[1] = polished
        /\ \A i \in 2..Len(pop) : pop'[i] = pop[i]

(* Only a step that changes the population needs its fitnesses compared.   *)
MinimumNeverIncreases ==
    (pc # "created" /\ pop' # pop) => MinTrueFitness(pop') <= MinTrueFitness(pop)

(* C20: for pop_size >= 2 and elite_frac <= 1 the population holds exactly *)
(* pop_size individuals at every iteration; the first num_elite members of *)
(* the next population equal the first num_elite members of the sorted     *)
(* population, slot 0 being the polished board when polish was accepted;   *)
(* the lowest true fitness in the population never increases.              *)
C20_ElitesSurvive ==
    /\ [](ElitismCase => (PopulationFull /\ ElitesCarried))
    /\ [][ElitismCase =>
            (GenerationReplaced /\ PolishedTakesSlotZero /\ MinimumNeverIncreases)]_vars

(* A generation has ended after an accepted polish: slot 0 is the polished *)
(* board, better than the board of the iter event, the second elite is     *)
(* worse than it, and children fill the population.                        *)
C20_Witness ==
    /\ ElitismCase
    /\ pc = "loop"
    /\ pop_size > num_elite
    /\ Len(pop) = pop_size
    /\ pop[1] = polished
    /\ \E i \in IterEvents :
          /\ events[i].iteration = it
          /\ fitness(puzzle, pop[1]) < fitness(puzzle, events[i].board)
    /\ fitness(puzzle, pop[2]) > fitness(puzzle, pop[1])

----------------------------------------------------------------------------
(* C24: after the sort of every iteration the cached fitness of each       *)
(* individual is at most its recomputed fitness, and for slot 0 the two    *)
(* are equal, although cloned elites are given slot 0's fitness.           *)
C24_CachedFitnessNeverOverstates ==
    pc = "iter" =>
        /\ \A i \in 1..Len(pop) : fits[i] <= fitness(puzzle, pop[i])
        /\ fits[1] = fitness(puzzle, pop[1])

(* A later iteration in which a cloned elite is cached below its fitness.  *)
C24_Witness ==
    /\ pc = "iter"
    /\ it >= 2
    /\ \E i \in 2..Len(pop) : fits[i] < fitness(puzzle, pop[i])
    /\ fits[1] = fitness(puzzle, pop[1])

----------------------------------------------------------------------------
Pulling(run) == run.pc \in {"pull", "check", "forward"}

AtMostOnePulling ==
    \A i, j \in 1..Len(runs) : (Pulling(runs[i]) /\ Pulling(runs[j])) => i = j

(* The _finish_solve of run Head(ui_queue) marks no later run, alive and   *)
(* not yet stopped, as stopped.                                            *)
FinishSparesLaterRuns ==
    (ui_queue # <<>> /\ ui_queue' = Tail(ui_queue)) =>
        \A k \in (Head(ui_queue) + 1)..Len(runs) :
            (Alive(runs[k]) /\ ~runs[k].stopped) => ~runs'[k].stopped

(* C25 as stated: no two _solve_loop executions pull events at the same    *)
(* time, and the _finish_solve scheduled by an earlier run never stops a   *)
(* run started after it.                                                   *)
C25_AtMostOneLiveThread == []AtMostOnePulling /\ [][FinishSparesLaterRuns]_vars

----------------------------------------------------------------------------
TableTags == {"init", "iter", "swap_try", "swap_reset", "done", "fail"}

BacktrackingTags == {"start", "update", "backtrack", "done", "fail"}

IsBoard(b, n) == b \in [1..n -> [1..n -> 0..n]]

Cells(n) == (0..(n - 1)) \X (0..(n - 1))

(* The payload the step-protocol table gives for the tag of e.             *)
TablePayload(e, n) ==
    CASE e[1] \in {"init", "iter", "done", "fail"} ->
            /\ Len(e) = 5
            /\ IsBoard(e[2], n)
            /\ e[3] \in Nat
            /\ e[4] \in Nat
            /\ e[5] \subseteq Cells(n)
      [] e[1] = "swap_try" -> Len(e) = 6
      [] e[1] = "swap_reset" -> Len(e) = 4

(* C22 as stated: every event of the backtracking generator has a tag and  *)
(* a payload shape from the step-protocol table.                           *)
C22_BacktrackingFollowsStepProtocol ==
    /\ \A i \in 1..Len(bt_events) : bt_events[i][1] \in TableTags
    /\ \A i \in 1..Len(bt_events) : TablePayload(bt_events[i], SizeN(puzzle))

BacktrackingPayload(e, n) ==
    CASE e[1] = "start" -> e = <<"start", None, None, None, 0>>
      [] e[1] = "update" ->
            /\ <<e[2], e[3]>> \in Cells(n)
            /\ e[4] \in 1..n
            /\ e[5] \in Nat \ {0}
      [] e[1] = "backtrack" ->
            /\ <<e[2], e[3]>> \in Cells(n)
            /\ e[4] = 0
            /\ e[5] \in Nat \ {0}
      [] e[1] = "done" ->
            /\ IsBoard(e[2], n)
            /\ e[3] = 0
            /\ e[4] = None
            /\ e[5] \in Nat
      [] e[1] = "fail" ->
            /\ e[2] = None
            /\ e[3] = 0
            /\ e[4] = None
            /\ e[5] \in Nat

(* C22: the backtracking generator has its own protocol: every event is a  *)
(* 5-tuple tagged start, update, backtrack, done or fail; update and       *)
(* backtrack carry row, column, value (0 on backtrack) and step count;     *)
(* done carries a board, 0, None and the step count; fail carries None, 0, *)
(* None and the step count.  The first event is start, which is no tag of  *)
(* the step-protocol table.                                                *)
C22_BacktrackingEventShapes ==
    /\ \A i \in 1..Len(bt_events) :
          /\ Len(bt_events[i]) = 5
          /\ bt_events[i][1] \in BacktrackingTags
          /\ BacktrackingPayload(bt_events[i], SizeN(puzzle))
    /\ bt_events # <<>> =>
          (bt_events[1][1] = "start" /\ bt_events[1][1] \notin TableTags)

(* A run that placed values, took one back and ended with done.            *)
C22_Witness ==
    /\ bt_pc = "done"
    /\ bt_events[Len(bt_events)][1] = "done"
    /\ \E i, j \in 1..Len(bt_events) :
          bt_events[i][1] = "update" /\ bt_events[j][1] = "backtrack"

----------------------------------------------------------------------------
ConsistentClues(pz) == RowConsistent(pz) /\ ~CluesCollide(pz)

HasCompletion(pz) == \E b \in random_ind(pz) : IsSolution(pz, b)

BtEnded == bt_pc \in {"done", "fail", "returned"}

StepCountsAscend ==
    \A i \in 1..Len(bt_events) :
        /\ i = 1 => bt_events[i] = StartEvent
        /\ bt_events[i][1] \in {"update", "backtrack"} => bt_events[i][5] = i - 1

OneTerminalEvent ==
    /\ \A i \in 1..Len(bt_events) :
          bt_events[i][1] \in {"done", "fail"} => (i = Len(bt_events) /\ BtEnded)
    /\ BtEnded => bt_events[Len(bt_events)][1] \in {"done", "fail"}

TerminalEventRight ==
    BtEnded =>
        LET e == bt_events[Len(bt_events)]
        IN /\ e[1] = "done" <=> HasCompletion(puzzle)
           /\ e[5] = Len(bt_events) - 2
           /\ e[1] = "done" => IsSolution(puzzle, e[2])
           /\ e[1] = "fail" => work_board = puzzle

(* C23: on a board with mutually consistent clues the backtracking         *)
(* generator ends; its update and backtrack events count 1, 2, 3, ...;     *)
(* there is exactly one terminal event: done exactly when the puzzle has a *)
(* completion, with a full board without repeats that keeps the clues,     *)
(* otherwise fail with the working board back at its initial content.      *)
C23_BacktrackingSolvesOrFails ==
    /\ [](ConsistentClues(puzzle) =>
            (StepCountsAscend /\ OneTerminalEvent /\ TerminalEventRight))
    /\ (ConsistentClues(puzzle) => <>(bt_pc = "returned"))

(* A search that fails after taking values back, the board restored.       *)
C23_Witness ==
    /\ ConsistentClues(puzzle)
    /\ bt_pc = "fail"
    /\ \E i \in 1..Len(bt_events) : bt_events[i][1] = "backtrack"
    /\ work_board = puzzle
    /\ \E rc \in Cells(SizeN(puzzle)) : Cell(puzzle, rc[1], rc[2]) = 0

----------------------------------------------------------------------------
Ids(seq) == {seq[i] : i \in 1..Len(seq)}

(* Every board solve_gen holds or has handed out, and the caller's puzzle. *)
LiveBoards ==
    (Ids(refs.pop) \cup Ids(refs.new_pop) \cup Ids(refs.elites) \cup Ids(refs.emitted)
     \cup {refs.best, refs.child, refs.polished, refs.puzzle}) \ {0}

(* What building a child must leave alone.                                 *)
Bystanders ==
    (Ids(refs.pop) \cup Ids(refs.elites) \cup Ids(refs.emitted)
     \cup {refs.best, refs.puzzle}) \ {0}

NoSharedRows ==
    refs # <<>> =>
        \A a, b \in LiveBoards :
            /\ Cardinality(RowIds(heap, a)) = Len(heap[a])
            /\ a # b => RowIds(heap, a) \cap RowIds(heap, b) = {}

PopulationsDistinct ==
    refs # <<>> =>
        /\ Cardinality(Ids(refs.pop)) = Len(refs.pop)
        /\ Cardinality(Ids(refs.new_pop)) = Len(refs.new_pop)

ChildStep ==
    \/ refs.pc = "breed" /\ refs'.pc = "child"
    \/ refs.pc = "child" /\ refs'.pc = "breed"

BystandersUntouched ==
    /\ \A b \in Bystanders :
          /\ heap'[b] = heap[b]
          /\ \A row \in RowIds(heap, b) : heap'[row] = heap[row]
    /\ Deref(heap', refs'.puzzle) = puzzle

MutationIsSwap ==
    (refs.pc = "child") =>
        LET before == Deref(heap, refs.child)
            after == Deref(heap', refs.child)
        IN \/ after = before
           \/ \E r \in Idx(puzzle) : \E c1, c2 \in MutableCols(puzzle, r) :
                 c1 # c2 /\ after = SwapInRow(before, r, c1, c2)

(* C21: building a child changes nothing but the child.  Crossover and     *)
(* mutation leave every elite, every individual of the population, the     *)
(* best-so-far board, every emitted board and the puzzle as they were; the *)
(* mutation is at most a swap of two non-fixed cells in one row; no two    *)
(* boards share a row object, and no population holds a board twice.       *)
C21_ChildBuildingTouchesOnlyChild ==
    /\ [](NoSharedRows /\ PopulationsDistinct)
    /\ [][ChildStep => (BystandersUntouched /\ MutationIsSwap)]_vars

(* A child has joined new_pop with a row that no parent has: it was        *)
(* mutated.                                                                *)
C21_Witness ==
    /\ refs # <<>>
    /\ refs.pc = "breed"
    /\ refs.child # 0
    /\ refs.new_pop[Len(refs.new_pop)] = refs.child
    /\ \E r \in 1..SizeN(puzzle) :
          \A p \in Ids(refs.pop) \cup Ids(refs.elites) :
              Deref(heap, refs.child)[r] # Deref(heap, p)[r]

====
